---- MODULE Spec2Model ----
(***************************************************************************)
(* Model of the in-memory key/value engine of go-redis: the MemoryStore    *)
(* (value map, expiry map, lazy expiration), the option objects handed to  *)
(* it by the command layer, the commands that call it, and the server      *)
(* that reads them from its connections.                                   *)
(*                                                                         *)
(* Time is counted in ticks.  One tick stands for one millisecond and a    *)
(* second is TicksPerSecond ticks, so that less than a second can elapse   *)
(* between two operations.  Every call of the store runs under the store's *)
(* mutex and is one atomic action, except in SpecC and SpecCM, where the   *)
(* calls of two goroutines are taken statement by statement.  A command    *)
(* that calls the store more than once (DEL with several keys) is one      *)
(* action per call.                                                        *)
(*                                                                         *)
(* The specifications of the module.  Spec is the store of byte strings    *)
(* with expiry; SpecD is the same store under DEL commands with several    *)
(* keys.  SpecZ is the store with the sorted-set commands ZADD and ZRANGE  *)
(* next to GET, SET and DEL.  SpecSS is one SortedSet of the earlier store *)
(* (lookup and skiplist) under its Add; SpecR is the skiplist on its own,  *)
(* read by rank.  SpecO is the option registry of ZADD.  SpecG is the      *)
(* pattern matcher of KEYS.  SpecC (FairSpecC with fair scheduling) is the *)
(* store called by two goroutines, and SpecCM the same with Expire and     *)
(* ZAdd among their calls.  SpecW is the store under every operation that  *)
(* writes the value map or the expiry map, ZAdd included, while the clock  *)
(* runs.  SpecSrv (FairSpecSrv) is the process:                            *)
(* main, the TCP server with its accept loop and shutdown, and the         *)
(* connection handlers that parse requests, run them on the store and      *)
(* write the replies.  SpecP is the parsing of ZRANGE and ZADD requests.   *)
(* SpecE is the store with sorted sets while the clock runs, and SpecI the *)
(* skiplist under inserts.                                                 *)
(***************************************************************************)
EXTENDS Integers, Sequences, FiniteSets, TLC

\* ---------------------------------------------------------------- bounds
MaxTime == 3            \* the clock runs from 0 to MaxTime ticks
TicksPerSecond == 2     \* ticks in one second (one tick is one millisecond)
MaxTTLSeconds == 1      \* EXPIRE is called with -1 .. MaxTTLSeconds seconds
MaxExpiryValue == 1     \* EX/PX/EXAT/PXAT carry a value in 1 .. MaxExpiryValue
MaxDelKeys == 2         \* DEL is called with 1 .. MaxDelKeys keys
MaxScore == 2           \* the scores of sorted-set members are 1 .. MaxScore
MaxNodeLevel == 2       \* randomLevel() returns 1 .. MaxNodeLevel
MaxAdds == 3            \* a skiplist on its own gets MaxAdds inserts, a sorted
                        \* set on its own grows to MaxAdds nodes
MaxRequests == 2        \* the clients send up to MaxRequests requests
MaxRank == 3            \* getRange is called with indices -MaxRank .. MaxRank
MaxPatternLen == 4      \* patterns of up to MaxPatternLen characters
MaxStrLen == 3          \* matched strings of up to MaxStrLen characters
MaxZAddWords == 5       \* a ZADD request has up to MaxZAddWords words after ZADD
MaxOptionArgs == 3      \* a ZRANGE request carries up to MaxOptionArgs
                        \* arguments after key, start and stop

Keys == {"k1", "k2"}
\* The keys SET is called on with every option object and EXPIRE is called
\* on; the other keys are written by SET without options only.
OptKeys == {"k1"}
Values == {"v1", "v2"}
Patterns == {"*"} \cup Keys

\* Go's nil result (absence) and the nil error
Nil == "nil"
NoErr == ""

\* The error kinds of the engine.  The code returns fmt.Errorf values; the
\* message decides the kind.
ErrPreconditionFailed == "PreconditionFailed"
ErrNotFound == "NotFound"
ErrWrongType == "WrongType"
ErrInvalidArgument == "InvalidArgument"
ErrOptionConflict == "OptionConflict"
ErrUnknownOption == "UnknownOption"

VARIABLES
    data,       \* MemoryStore.data: a map, key -> value
    expires,    \* MemoryStore.expires: a map, key -> absolute instant (ticks)
    now,        \* the wall clock, time.Now(), in ticks
    last,       \* the call that produced this state, its inputs and its reply
    lastWrite,  \* history: per key, the value of the most recent successful
                \* set that no del followed (Nil if none)
    plain,      \* history: per key, TRUE while only get, del and set without
                \* an expiry option have been called on it
    armed,      \* history: the successful expire with ttl > 0 that nothing
                \* but clock ticks and ttl calls followed, or NoArm
    delRun,     \* the DEL command that is between two of its keys: the keys,
                \* how many are done, the count so far, and the maps it
                \* found when it started; NoDel when there is none
    zHeap,      \* the SortedSet objects the values of data point to
    zLast,      \* the sorted-set call that produced this state, or NoZCall
    zAdded,     \* history: per key, the members that zAdd calls without
                \* options supplied since the key was last absent, each
                \* with the last score supplied for it
    ssSet,      \* a SortedSet of the earlier store, as its ZAdd creates it
    skl,        \* a skiplist taken on its own, as newSkiplist() returns it
    sklLast,    \* the call on skl that produced this state, or NoSLCall
    oActive,    \* Options.active of one option object: the active names
    oLast,      \* the call on the option object that produced this state
    oActivated, \* history: the names Set accepted since the last Clear
    srv,        \* the process and its Server: listener, quit channel, wait
                \* group, and where Start, Stop and the accept loop stand
    conns,      \* per client connection: the client's end, where the
                \* handler goroutine stands, the request on the wire, the
                \* request in hand, the last exchange
    gLast,      \* the last call of matchPattern and its result
    mu,         \* MemoryStore.mu: who holds the writers' mutex, the writer
                \* inside, the readers inside, the readers that wait
    procs,      \* per calling goroutine: the call it is in, where it stands
                \* in it, and what its last call returned
    written,    \* history: per key, the value of the last Set that returned,
                \* Nil after a Del that returned
    pLast       \* the last ZRANGE or ZADD request handed to createCommand and what
                \* came of it

storeVars == <<data, expires, now, last, lastWrite, plain, armed, delRun>>
zVars == <<zHeap, zLast, zAdded>>
ssVars == <<ssSet, skl, sklLast>>
oVars == <<oActive, oLast, oActivated>>
srvVars == <<srv, conns>>
\* The variables of the parts that are taken on their own
gVars == <<gLast>>
cVars == <<mu, procs, written>>
pVars == <<pLast>>
auxVars == <<oVars, srvVars, gVars, cVars, pVars>>
notO == <<storeVars, zVars, ssVars, srvVars, gVars, cVars, pVars>>
notSrv == <<storeVars, zVars, ssVars, oVars, gVars, cVars, pVars>>
notG == <<storeVars, zVars, ssVars, oVars, srvVars, cVars, pVars>>
notC == <<last, lastWrite, armed, delRun, zLast, zAdded, ssVars, oVars, srvVars,
          gVars, pVars>>
notP == <<storeVars, zVars, ssVars, oVars, srvVars, gVars, cVars>>
vars == <<data, expires, now, last, lastWrite, plain, armed, delRun,
          zHeap, zLast, zAdded, ssSet, skl, sklLast, oActive, oLast, oActivated,
          srv, conns, gLast, mu, procs, written, pLast>>

\* --------------------------------------------------------------- Go maps
\* delete(m, key)
MapDelete(m, key) == [x \in (DOMAIN m) \ {key} |-> m[x]]

\* m[key] = v
MapPut(m, key, v) == [x \in (DOMAIN m) \cup {key} |-> IF x = key THEN v ELSE m[x]]

EmptyMap == [x \in {} |-> Nil]

\* ------------------------------------------------------ option registry
\* Options.options after NewSetOptions: name -> Incompatible
SetRegistry ==
    [name \in {"NX", "XX", "GET"} |->
        CASE name = "NX" -> {"XX"}
          [] name = "XX" -> {"NX"}
          [] OTHER -> {}]

\* Options.options after NewExpireOptions: name -> Incompatible
ExpireRegistry ==
    [name \in {"NX", "XX", "GT", "LT"} |->
        CASE name = "NX" -> {"XX", "GT", "LT"}
          [] name = "XX" -> {"NX", "GT", "LT"}
          [] name = "GT" -> {"NX", "XX", "LT"}
          [] OTHER -> {"NX", "XX", "GT"}]

\* strings.ToUpper on the option names that occur
ToUpper(name) ==
    CASE name = "nx" -> "NX"
      [] name = "incr" -> "INCR"
      [] name = "bylex" -> "BYLEX"
      [] OTHER -> name

\* Options.Set(name): unknown name, then a conflict of name's Incompatible
\* list with an already active option, else name becomes active.
OptionsSet_IgnoresConflict(registry, active, name) ==
    LET upper == ToUpper(name)
    IN  IF upper \notin DOMAIN registry
        THEN [active |-> active, err |-> ErrUnknownOption]
        ELSE [active |-> active \cup {upper}, err |-> NoErr]

OptionsSet(registry, active, name) ==
    LET upper == ToUpper(name)
    IN  IF upper \notin DOMAIN registry
        THEN [active |-> active, err |-> ErrUnknownOption]
        ELSE IF \E activeOpt \in active :
                   \E incompatible \in registry[upper] : ToUpper(incompatible) = activeOpt
             THEN [active |-> active, err |-> ErrOptionConflict]
             ELSE [active |-> active \cup {upper}, err |-> NoErr]

\* Options.IsSet(name)
OptionsIsSet(active, name) == ToUpper(name) \in active

\* Options.Clear()
OptionsClear == {}

\* The parser's option loop: Set is called for each name in turn and the
\* first error rejects the command.
RECURSIVE ParseOptions(_, _, _)
ParseOptions(registry, active, names) ==
    IF names = <<>>
    THEN [active |-> active, err |-> NoErr]
    ELSE LET r == OptionsSet(registry, active, Head(names))
         IN  IF r.err # NoErr THEN r
             ELSE ParseOptions(registry, r.active, Tail(names))

\* Sequences of option names of length 0 .. 2 over a registry's names
NameSeqs(registry) ==
    {<<>>} \cup {<<a>> : a \in DOMAIN registry}
           \cup {<<a, b>> : a \in DOMAIN registry, b \in DOMAIN registry}

\* The active sets a command can reach the store with
LegalActive(registry) ==
    {ParseOptions(registry, {}, s).active :
        s \in {t \in NameSeqs(registry) : ParseOptions(registry, {}, t).err = NoErr}}

\* The expiry fields of a new SetOptions: no type, the zero time
NoExpiry == [ExpiryType |-> "", ExpiryTime |-> 0]

ErrInvalidExpiryType == "InvalidExpiryType"

\* o.SetExpiry(expiryType, value) called at instant t on an object whose
\* expiry fields are those of o: the fields afterwards and the error.
\* KEEPTTL sets the type and leaves the time; a type that is none of the
\* five is an error and leaves both.
SetExpiry(o, expiryType, value, t) ==
    LET set(ty, time) == [ExpiryType |-> ty, ExpiryTime |-> time, err |-> NoErr]
    IN  CASE expiryType = "EX"   -> set("EX", t + value * TicksPerSecond)
          [] expiryType = "PX"   -> set("PX", t + value)
          [] expiryType = "EXAT" -> set("EXAT", value * TicksPerSecond)
          [] expiryType = "PXAT" -> set("PXAT", value)
          [] expiryType = "KEEPTTL" -> set("KEEPTTL", o.ExpiryTime)
          [] OTHER -> [ExpiryType |-> o.ExpiryType, ExpiryTime |-> o.ExpiryTime,
                       err |-> ErrInvalidExpiryType]

\* An option object: nil is the Go nil pointer
MkOpts(isNil, active, exp) ==
    [nil |-> isNil, active |-> active,
     ExpiryType |-> exp.ExpiryType, ExpiryTime |-> exp.ExpiryTime]

NilOpts == MkOpts(TRUE, {}, NoExpiry)

\* The option object of a command that names no option
EmptyOpts == MkOpts(FALSE, {}, NoExpiry)

\* The option objects a SET can carry when it is built at instant t
SetOptionsAt(t) ==
    {NilOpts} \cup
    {MkOpts(FALSE, a, SetExpiry(NoExpiry, ty, v, t)) :
        a \in LegalActive(SetRegistry),
        ty \in {"EX", "PX", "EXAT", "PXAT"},
        v \in 1..MaxExpiryValue} \cup
    {MkOpts(FALSE, a, exp) :
        a \in LegalActive(SetRegistry),
        exp \in {NoExpiry, SetExpiry(NoExpiry, "KEEPTTL", 0, t)}}

\* The option objects an EXPIRE can carry
ExpireOptionsAll ==
    {NilOpts} \cup
    {MkOpts(FALSE, a, NoExpiry) : a \in LegalActive(ExpireRegistry)}

IsNX(opts) == "NX" \in opts.active
IsXX(opts) == "XX" \in opts.active
IsGT(opts) == "GT" \in opts.active
IsLT(opts) == "LT" \in opts.active
IsGET(opts) == "GET" \in opts.active
IsKEEPTTL(opts) == opts.ExpiryType = "KEEPTTL"

\* ----------------------------------------------------------- MemoryStore
\* MemoryStore.isExpired at instant t: time.Now().After(expiry)
isExpired(e, key, t) ==
    IF key \in DOMAIN e THEN t > e[key] ELSE FALSE

\* Get with the deletion of the expiry entry left out
StoreGet_KeepsExpiry(d, e, key, t) ==
    IF isExpired(e, key, t)
    THEN [data |-> MapDelete(d, key), expires |-> e,
          result |-> Nil, err |-> NoErr]
    ELSE IF key \in DOMAIN d
         THEN [data |-> d, expires |-> e, result |-> d[key], err |-> NoErr]
         ELSE [data |-> d, expires |-> e, result |-> Nil, err |-> NoErr]

\* MemoryStore.Get at instant t
StoreGet(d, e, key, t) ==
    IF isExpired(e, key, t)
    THEN [data |-> MapDelete(d, key), expires |-> MapDelete(e, key),
          result |-> Nil, err |-> NoErr]
    ELSE IF key \in DOMAIN d
         THEN [data |-> d, expires |-> e, result |-> d[key], err |-> NoErr]
         ELSE [data |-> d, expires |-> e, result |-> Nil, err |-> NoErr]

\* The KEEPTTL branch with its test inverted: an existing expiry is dropped
SetExpires_KeepTTLDrops(e, key, opts) ==
    IF ~opts.nil
    THEN IF IsKEEPTTL(opts)
         THEN IF key \in DOMAIN e THEN MapDelete(e, key) ELSE e
         ELSE IF opts.ExpiryType # ""
              THEN MapPut(e, key, opts.ExpiryTime)
              ELSE MapDelete(e, key)
    ELSE MapDelete(e, key)

\* The expiry map after a Set that passed its guards
SetExpires(e, key, opts) ==
    IF ~opts.nil
    THEN IF IsKEEPTTL(opts)
         THEN IF key \notin DOMAIN e THEN MapDelete(e, key) ELSE e
         ELSE IF opts.ExpiryType # ""
              THEN MapPut(e, key, opts.ExpiryTime)
              ELSE MapDelete(e, key)
    ELSE MapDelete(e, key)

\* Set with the value stored before the NX and XX guards are tested
StoreSet_StoresFirst(d, e, key, value, opts) ==
    LET exists == key \in DOMAIN d
        oldValue == IF exists THEN d[key] ELSE Nil
        stored == MapPut(d, key, value)
    IN  IF ~opts.nil /\ IsNX(opts) /\ exists
        THEN [data |-> stored, expires |-> e, result |-> Nil, err |-> ErrPreconditionFailed]
        ELSE IF ~opts.nil /\ IsXX(opts) /\ ~exists
        THEN [data |-> stored, expires |-> e, result |-> Nil, err |-> ErrPreconditionFailed]
        ELSE [data |-> stored,
              expires |-> SetExpires(e, key, opts),
              result |-> IF ~opts.nil /\ IsGET(opts) THEN oldValue ELSE Nil,
              err |-> NoErr]

\* MemoryStore.Set
StoreSet(d, e, key, value, opts) ==
    LET exists == key \in DOMAIN d
        oldValue == IF exists THEN d[key] ELSE Nil
    IN  IF ~opts.nil /\ IsNX(opts) /\ exists
        THEN [data |-> d, expires |-> e, result |-> Nil, err |-> ErrPreconditionFailed]
        ELSE IF ~opts.nil /\ IsXX(opts) /\ ~exists
        THEN [data |-> d, expires |-> e, result |-> Nil, err |-> ErrPreconditionFailed]
        ELSE [data |-> MapPut(d, key, value),
              expires |-> SetExpires(e, key, opts),
              result |-> IF ~opts.nil /\ IsGET(opts) THEN oldValue ELSE Nil,
              err |-> NoErr]

\* Del with the deletion of the value left out
StoreDel_KeepsValue(d, e, key) ==
    [data |-> d, expires |-> MapDelete(e, key), err |-> NoErr]

\* MemoryStore.Del
StoreDel_KeepsExpiry(d, e, key) ==
    [data |-> MapDelete(d, key), expires |-> e, err |-> NoErr]

StoreDel(d, e, key) ==
    [data |-> MapDelete(d, key), expires |-> MapDelete(e, key), err |-> NoErr]

\* DelCommand.Execute, one round of its loop: Del for the key, counted
\* when it returned no error.  The store is locked for that call only
DelExecute(d, e, key, deleted) ==
    LET r == StoreDel(d, e, key)
    IN  [data |-> r.data, expires |-> r.expires,
         n |-> IF r.err = NoErr THEN deleted + 1 ELSE deleted]

\* Expire whose GT guard lets a ttl equal to the remaining ttl through
StoreExpire_GTAllowsEqual(d, e, key, ttl, opts, t) ==
    LET hasExpiry == IF key \in DOMAIN e THEN ~(t > e[key]) ELSE FALSE
        currentTTL == e[key] - t
        unchanged(kind) == [data |-> d, expires |-> e, err |-> kind]
    IN  IF key \notin DOMAIN d THEN unchanged(ErrNotFound)
        ELSE IF ~opts.nil /\ IsNX(opts) /\ hasExpiry THEN unchanged(ErrPreconditionFailed)
        ELSE IF ~opts.nil /\ IsXX(opts) /\ ~hasExpiry THEN unchanged(ErrPreconditionFailed)
        ELSE IF ~opts.nil /\ IsGT(opts) /\ hasExpiry /\ ttl < currentTTL
             THEN unchanged(ErrPreconditionFailed)
        ELSE IF ~opts.nil /\ IsLT(opts) /\ hasExpiry /\ ttl >= currentTTL
             THEN unchanged(ErrPreconditionFailed)
        ELSE IF ttl <= 0
             THEN [data |-> MapDelete(d, key), expires |-> MapDelete(e, key), err |-> NoErr]
        ELSE [data |-> d, expires |-> MapPut(e, key, t + ttl), err |-> NoErr]

\* Expire that deletes the key for a negative ttl only
StoreExpire_ZeroInstalls(d, e, key, ttl, opts, t) ==
    LET hasExpiry == IF key \in DOMAIN e THEN ~(t > e[key]) ELSE FALSE
        currentTTL == e[key] - t
        unchanged(kind) == [data |-> d, expires |-> e, err |-> kind]
    IN  IF key \notin DOMAIN d THEN unchanged(ErrNotFound)
        ELSE IF ~opts.nil /\ IsNX(opts) /\ hasExpiry THEN unchanged(ErrPreconditionFailed)
        ELSE IF ~opts.nil /\ IsXX(opts) /\ ~hasExpiry THEN unchanged(ErrPreconditionFailed)
        ELSE IF ~opts.nil /\ IsGT(opts) /\ hasExpiry /\ ttl <= currentTTL
             THEN unchanged(ErrPreconditionFailed)
        ELSE IF ~opts.nil /\ IsLT(opts) /\ hasExpiry /\ ttl >= currentTTL
             THEN unchanged(ErrPreconditionFailed)
        ELSE IF ttl < 0
             THEN [data |-> MapDelete(d, key), expires |-> MapDelete(e, key), err |-> NoErr]
        ELSE [data |-> d, expires |-> MapPut(e, key, t + ttl), err |-> NoErr]

\* MemoryStore.Expire at instant t, ttl in ticks
StoreExpire(d, e, key, ttl, opts, t) ==
    LET hasExpiry == IF key \in DOMAIN e THEN ~(t > e[key]) ELSE FALSE
        currentTTL == e[key] - t
        unchanged(kind) == [data |-> d, expires |-> e, err |-> kind]
    IN  IF key \notin DOMAIN d THEN unchanged(ErrNotFound)
        ELSE IF ~opts.nil /\ IsNX(opts) /\ hasExpiry THEN unchanged(ErrPreconditionFailed)
        ELSE IF ~opts.nil /\ IsXX(opts) /\ ~hasExpiry THEN unchanged(ErrPreconditionFailed)
        ELSE IF ~opts.nil /\ IsGT(opts) /\ hasExpiry /\ ttl <= currentTTL
             THEN unchanged(ErrPreconditionFailed)
        ELSE IF ~opts.nil /\ IsLT(opts) /\ hasExpiry /\ ttl >= currentTTL
             THEN unchanged(ErrPreconditionFailed)
        ELSE IF ttl <= 0
             THEN [data |-> MapDelete(d, key), expires |-> MapDelete(e, key), err |-> NoErr]
        ELSE [data |-> d, expires |-> MapPut(e, key, t + ttl), err |-> NoErr]

\* MemoryStore.TTL at instant t: int(time.Until(expiry).Seconds())
StoreTTL(d, e, key, t) ==
    IF key \in DOMAIN e
    THEN IF e[key] - t > 0 THEN (e[key] - t) \div TicksPerSecond ELSE -2
    ELSE IF key \notin DOMAIN d THEN -2 ELSE -1

\* ------------------------------------------------------ pattern matching
\* Strings are sequences of characters here.  The letters stand for the
\* letters that are no escape of Go's regexp syntax (\h and \l are
\* invalid escape sequences there).
Letters == {"h", "l"}
GlobChars == Letters \cup {"*", "?", "[", "]", "^", "\\"}

\* The characters of the key names and patterns of the store
Chars(name) ==
    CASE name = "k1" -> <<"k", "1">>
      [] name = "k2" -> <<"k", "2">>
      [] name = "*" -> <<"*">>
      [] OTHER -> <<>>

\* The characters the default branch of matchPattern escapes
RegexSpecials == {".", "+", "(", ")", "|", "{", "}", "$", "^"}

\* The loop over the inside of a bracket: copies characters up to the
\* first "]" that no backslash precedes; j ends on it or past the end
RECURSIVE ClassScan(_, _, _)
ClassScan(pattern, j, text) ==
    IF j <= Len(pattern) /\ pattern[j] # "]"
    THEN IF pattern[j] = "\\" /\ j + 1 <= Len(pattern)
         THEN ClassScan(pattern, j + 2, text \o <<"\\", pattern[j + 1]>>)
         ELSE ClassScan(pattern, j + 1, text \o <<pattern[j]>>)
    ELSE [j |-> j, text |-> text]

\* The loop of matchPattern that turns the pattern into a regex pattern
RECURSIVE Translate(_, _, _)
Translate(pattern, i, regexPattern) ==
    IF i > Len(pattern) THEN regexPattern
    ELSE
      CASE pattern[i] = "*" -> Translate(pattern, i + 1, regexPattern \o <<".", "*">>)
        [] pattern[i] = "?" -> Translate(pattern, i + 1, regexPattern \o <<".">>)
        [] pattern[i] = "[" ->
             LET negated == i + 1 <= Len(pattern) /\ pattern[i + 1] = "^"
                 open == IF negated THEN <<"[", "^">> ELSE <<"[">>
                 scan == ClassScan(pattern, IF negated THEN i + 2 ELSE i + 1, <<>>)
             IN  IF scan.j <= Len(pattern) /\ pattern[scan.j] = "]"
                 THEN Translate(pattern, scan.j + 1,
                                regexPattern \o open \o scan.text \o <<"]">>)
                 ELSE Translate(pattern, i + 1,
                                regexPattern \o open \o scan.text \o <<"\\", "[">>)
        [] pattern[i] = "\\" ->
             IF i + 1 <= Len(pattern)
             THEN Translate(pattern, i + 2, regexPattern \o <<"\\", pattern[i + 1]>>)
             ELSE Translate(pattern, i + 1, regexPattern \o <<"\\", "\\">>)
        [] OTHER ->
             IF pattern[i] \in RegexSpecials
             THEN Translate(pattern, i + 1, regexPattern \o <<"\\", pattern[i]>>)
             ELSE Translate(pattern, i + 1, regexPattern \o <<pattern[i]>>)

\* The elements of a compiled regular expression: the anchors, and the
\* atoms (any character, a literal, a class), each possibly under a star
Anchor(kind) == [kind |-> kind, char |-> "", set |-> {}, negated |-> FALSE, star |-> FALSE]
AnyAtom == [kind |-> "any", char |-> "", set |-> {}, negated |-> FALSE, star |-> FALSE]
LitAtom(c) == [kind |-> "lit", char |-> c, set |-> {}, negated |-> FALSE, star |-> FALSE]
ClassAtom(set, negated) ==
    [kind |-> "class", char |-> "", set |-> set, negated |-> negated, star |-> FALSE]

\* regexp/syntax: a backslash before a letter of Letters is an invalid
\* escape sequence; before a punctuation character it makes it a literal
InvalidEscape(c) == c \in Letters

\* regexp/syntax on the inside of a bracket expression, from position k:
\* a "]" that is the first character is a literal, a backslash escapes,
\* the next "]" closes.  Past the end the bracket is not closed: an error.
RECURSIVE ParseClass(_, _, _, _)
ParseClass(re, k, set, first) ==
    IF k > Len(re) THEN [err |-> TRUE, set |-> set, next |-> k]
    ELSE IF re[k] = "]" /\ ~first THEN [err |-> FALSE, set |-> set, next |-> k + 1]
    ELSE IF re[k] = "\\"
         THEN IF k + 1 > Len(re) \/ InvalidEscape(re[k + 1])
              THEN [err |-> TRUE, set |-> set, next |-> k]
              ELSE ParseClass(re, k + 2, set \cup {re[k + 1]}, FALSE)
    ELSE ParseClass(re, k + 1, set \cup {re[k]}, FALSE)

\* regexp.Compile on the expressions matchPattern builds: a sequence of
\* anchors and atoms, or an error
RECURSIVE Compile(_, _, _)
Compile(re, i, prog) ==
    IF i > Len(re) THEN [err |-> FALSE, prog |-> prog]
    ELSE
      CASE re[i] = "^" -> Compile(re, i + 1, Append(prog, Anchor("bol")))
        [] re[i] = "$" -> Compile(re, i + 1, Append(prog, Anchor("eol")))
        [] re[i] = "." -> Compile(re, i + 1, Append(prog, AnyAtom))
        [] re[i] = "*" ->
             IF prog = <<>> \/ prog[Len(prog)].star
                  \/ prog[Len(prog)].kind \in {"bol", "eol"}
             THEN [err |-> TRUE, prog |-> prog]
             ELSE Compile(re, i + 1, [prog EXCEPT ![Len(prog)].star = TRUE])
        [] re[i] = "[" ->
             LET negated == i + 1 <= Len(re) /\ re[i + 1] = "^"
                 class == ParseClass(re, IF negated THEN i + 2 ELSE i + 1, {}, TRUE)
             IN  IF class.err THEN [err |-> TRUE, prog |-> prog]
                 ELSE Compile(re, class.next, Append(prog, ClassAtom(class.set, negated)))
        [] re[i] = "\\" ->
             IF i + 1 > Len(re) \/ InvalidEscape(re[i + 1])
             THEN [err |-> TRUE, prog |-> prog]
             ELSE Compile(re, i + 2, Append(prog, LitAtom(re[i + 1])))
        [] OTHER -> Compile(re, i + 1, Append(prog, LitAtom(re[i])))

\* An atom matches one character
AtomMatches(atom, c) ==
    CASE atom.kind = "any" -> TRUE
      [] atom.kind = "lit" -> c = atom.char
      [] atom.kind = "class" -> (c \in atom.set) # atom.negated
      [] OTHER -> FALSE

\* The program from element t on matches str from position pos on
RECURSIVE MatchAt(_, _, _, _)
MatchAt(prog, t, str, pos) ==
    IF t > Len(prog) THEN TRUE
    ELSE
      CASE prog[t].kind = "bol" -> pos = 1 /\ MatchAt(prog, t + 1, str, pos)
        [] prog[t].kind = "eol" -> pos = Len(str) + 1 /\ MatchAt(prog, t + 1, str, pos)
        [] prog[t].star ->
             \/ MatchAt(prog, t + 1, str, pos)
             \/ /\ pos <= Len(str)
                /\ AtomMatches(prog[t], str[pos])
                /\ MatchAt(prog, t, str, pos + 1)
        [] OTHER ->
             /\ pos <= Len(str)
             /\ AtomMatches(prog[t], str[pos])
             /\ MatchAt(prog, t + 1, str, pos + 1)

\* regexp.MatchString(re, str): str contains a match of re; a compile
\* error is returned as an error
MatchString(re, str) ==
    LET compiled == Compile(re, 1, <<>>)
    IN  [err |-> compiled.err,
         matched |-> /\ ~compiled.err
                     /\ \E pos \in 1..(Len(str) + 1) : MatchAt(compiled.prog, 1, str, pos)]

\* matchPattern(str, pattern)
matchPattern(str, pattern) ==
    IF pattern = <<"*">> THEN TRUE
    ELSE LET result == MatchString(<<"^">> \o Translate(pattern, 1, <<>>) \o <<"$">>, str)
         IN  IF result.err THEN FALSE ELSE result.matched

\* Keys with the expiry test left out
StoreKeys_ListsExpired(d, e, pattern, t) ==
    {k \in DOMAIN d : matchPattern(Chars(k), Chars(pattern))}

\* MemoryStore.Keys at instant t; the map iteration order is not part of
\* the result, which is kept as a set
StoreKeys(d, e, pattern, t) ==
    {k \in DOMAIN d : ~isExpired(e, k, t) /\ matchPattern(Chars(k), Chars(pattern))}

\* -------------------------------------------------------------- skiplist
\* The members of sorted sets and Go's byte order on them
Members == {"a", "b"}
MemberRank == [m \in Members \cup {""} |-> CASE m = "" -> 0 [] m = "a" -> 1 [] OTHER -> 2]
StrLess(x, y) == MemberRank[x] < MemberRank[y]
StrLeq(x, y) == MemberRank[x] <= MemberRank[y]

\* const maxLevel: the length of the head's forward array
maxLevel == 32

\* Node pointers: the head is node 0, nil is -1, the other nodes are 1, 2, ..
HeadNode == 0
NilNode == -1

\* newSkiplist(): a head of maxLevel nil forward pointers, level 1.
\* A level i of the code (0-based) is level i + 1 here.
newSkiplist ==
    [nodes |-> [id \in {HeadNode} |->
                  [member |-> "", score |-> 0,
                   forward |-> [i \in 1..maxLevel |-> NilNode],
                   backward |-> NilNode, level |-> maxLevel]],
     tail |-> NilNode, length |-> 0, level |-> 1]

\* The nil *skiplist of a SortedSet whose fields were never allocated
NilSkiplist ==
    [nodes |-> [id \in {} |-> 0], tail |-> NilNode, length |-> 0, level |-> 0]

\* The loop condition of the searches of insert and delete: the node sorts
\* before (score, member)
Before(node, score, member) ==
    \/ node.score < score
    \/ node.score = score /\ StrLess(node.member, member)

\* The inner search loop at one level: follow forward[i] while the next
\* node sorts before (score, member)
RECURSIVE Walk(_, _, _, _, _)
Walk(sl, current, i, score, member) ==
    LET next == sl.nodes[current].forward[i]
    IN  IF next # NilNode /\ Before(sl.nodes[next], score, member)
        THEN Walk(sl, next, i, score, member)
        ELSE current

\* The outer search loop from level i down to level 1: the update vector
RECURSIVE FindUpdate(_, _, _, _, _, _)
FindUpdate(sl, current, i, score, member, update) ==
    IF i = 0 THEN update
    ELSE LET c == Walk(sl, current, i, score, member)
         IN  FindUpdate(sl, c, i - 1, score, member, [update EXCEPT ![i] = c])

\* make([]*skiplistNode, maxLevel)
NilUpdate == [i \in 1..maxLevel |-> NilNode]

\* The nodes no pointer leads to any more are dropped from the heap
Collect(sl) ==
    LET refs(id) ==
            {sl.nodes[id].forward[i] : i \in 1..Len(sl.nodes[id].forward)}
                \cup {sl.nodes[id].backward}
        kept == {id \in DOMAIN sl.nodes :
                    \/ id = HeadNode
                    \/ id = sl.tail
                    \/ \E other \in DOMAIN sl.nodes \ {id} : id \in refs(other)}
    IN  [sl EXCEPT !.nodes = [id \in kept |-> sl.nodes[id]]]

\* The levels 1, 2, .. at which delete unlinks the node: the loop stops at
\* the first level whose update node does not point to it
RECURSIVE UnlinkedLevels(_, _, _, _)
UnlinkedLevels(sl, update, current, i) ==
    IF i > sl.level \/ sl.nodes[update[i]].forward[i] # current
    THEN {}
    ELSE {i} \cup UnlinkedLevels(sl, update, current, i + 1)

\* The level of the list after a delete: lowered while the head has no
\* forward pointer at the top level
RECURSIVE ShrinkLevel(_, _)
ShrinkLevel(headForward, level) ==
    IF level > 1 /\ headForward[level] = NilNode
    THEN ShrinkLevel(headForward, level - 1)
    ELSE level

\* delete that unlinks the node at the lowest level only
SLDelete_UnlinksLowestLevel(sl, score, member) ==
    LET update == FindUpdate(sl, HeadNode, sl.level, score, member, NilUpdate)
        current == sl.nodes[update[1]].forward[1]
    IN  IF current = NilNode \/ sl.nodes[current].member # member
        THEN [sl |-> sl, ok |-> FALSE]
        ELSE
          LET node == sl.nodes[current]
              levels == {1}
              next == node.forward[1]
              nodes1 == [id \in DOMAIN sl.nodes |->
                            [sl.nodes[id] EXCEPT
                                !.forward = [i \in 1..Len(@) |->
                                                IF i \in levels /\ update[i] = id
                                                THEN node.forward[i] ELSE @[i]],
                                !.backward = IF id = next THEN node.backward ELSE @]]
              tail1 == IF next # NilNode THEN sl.tail ELSE node.backward
              level1 == ShrinkLevel(nodes1[HeadNode].forward, sl.level)
          IN  [sl |-> Collect([nodes |-> nodes1, tail |-> tail1,
                               length |-> sl.length - 1, level |-> level1]),
               ok |-> TRUE]

\* delete that leaves the tail where it was
SLDelete_KeepsTail(sl, score, member) ==
    LET update == FindUpdate(sl, HeadNode, sl.level, score, member, NilUpdate)
        current == sl.nodes[update[1]].forward[1]
    IN  IF current = NilNode \/ sl.nodes[current].member # member
        THEN [sl |-> sl, ok |-> FALSE]
        ELSE
          LET node == sl.nodes[current]
              levels == UnlinkedLevels(sl, update, current, 1)
              next == node.forward[1]
              nodes1 == [id \in DOMAIN sl.nodes |->
                            [sl.nodes[id] EXCEPT
                                !.forward = [i \in 1..Len(@) |->
                                                IF i \in levels /\ update[i] = id
                                                THEN node.forward[i] ELSE @[i]],
                                !.backward = IF id = next THEN node.backward ELSE @]]
              level1 == ShrinkLevel(nodes1[HeadNode].forward, sl.level)
          IN  [sl |-> Collect([nodes |-> nodes1, tail |-> sl.tail,
                               length |-> sl.length - 1, level |-> level1]),
               ok |-> TRUE]

\* skiplist.delete(score, member)
SLDelete(sl, score, member) ==
    LET update == FindUpdate(sl, HeadNode, sl.level, score, member, NilUpdate)
        current == sl.nodes[update[1]].forward[1]
    IN  IF current = NilNode \/ sl.nodes[current].member # member
        THEN [sl |-> sl, ok |-> FALSE]
        ELSE
          LET node == sl.nodes[current]
              levels == UnlinkedLevels(sl, update, current, 1)
              next == node.forward[1]
              nodes1 == [id \in DOMAIN sl.nodes |->
                            [sl.nodes[id] EXCEPT
                                !.forward = [i \in 1..Len(@) |->
                                                IF i \in levels /\ update[i] = id
                                                THEN node.forward[i] ELSE @[i]],
                                !.backward = IF id = next THEN node.backward ELSE @]]
              tail1 == IF next # NilNode THEN sl.tail ELSE node.backward
              level1 == ShrinkLevel(nodes1[HeadNode].forward, sl.level)
          IN  [sl |-> Collect([nodes |-> nodes1, tail |-> tail1,
                               length |-> sl.length - 1, level |-> level1]),
               ok |-> TRUE]

\* The pointer of a newly allocated node
NewNodeId(sl) ==
    CHOOSE id \in 1..(Cardinality(DOMAIN sl.nodes) + 1) :
        /\ id \notin DOMAIN sl.nodes
        /\ \A smaller \in 1..(id - 1) : smaller \in DOMAIN sl.nodes

\* skiplist.insert(score, member); level is the value randomLevel() returns
\* if the call gets as far as drawing it
RECURSIVE SLInsert(_, _, _, _)
SLInsert(sl, score, member, level) ==
    LET update == FindUpdate(sl, HeadNode, sl.level, score, member, NilUpdate)
        current == sl.nodes[update[1]].forward[1]
    IN  IF current # NilNode /\ sl.nodes[current].member = member
        THEN LET oldScore == sl.nodes[current].score
                 rescored == [sl EXCEPT !.nodes[current].score = score]
             IN  IF oldScore = score
                 THEN [sl |-> rescored, ok |-> FALSE]
                 ELSE SLInsert(SLDelete(rescored, oldScore, member).sl, score, member, level)
        ELSE
          LET update1 == [i \in 1..maxLevel |->
                            IF i > sl.level /\ i <= level THEN HeadNode ELSE update[i]]
              level1 == IF level > sl.level THEN level ELSE sl.level
              new == NewNodeId(sl)
              newForward == [i \in 1..level |-> sl.nodes[update1[i]].forward[i]]
              newNode == [member |-> member, score |-> score,
                          forward |-> newForward,
                          backward |-> IF update1[1] = HeadNode THEN NilNode ELSE update1[1],
                          level |-> level]
              nodes1 == [id \in DOMAIN sl.nodes \cup {new} |->
                            IF id = new THEN newNode
                            ELSE [sl.nodes[id] EXCEPT
                                    !.forward = [i \in 1..Len(@) |->
                                                    IF i <= level /\ update1[i] = id
                                                    THEN new ELSE @[i]],
                                    !.backward = IF id = newForward[1] THEN new ELSE @]]
          IN  [sl |-> [nodes |-> nodes1,
                       tail |-> IF newForward[1] # NilNode THEN sl.tail ELSE new,
                       length |-> sl.length + 1,
                       level |-> level1],
               ok |-> TRUE]

\* The loop of getRange that finds the start node
RECURSIVE SkipNodes(_, _, _)
SkipNodes(sl, current, n) ==
    IF n > 0 /\ current # NilNode
    THEN SkipNodes(sl, sl.nodes[current].forward[1], n - 1)
    ELSE current

\* The loop of getRange that collects the nodes
RECURSIVE CollectNodes(_, _, _)
CollectNodes(sl, current, n) ==
    IF n > 0 /\ current # NilNode
    THEN <<current>> \o CollectNodes(sl, sl.nodes[current].forward[1], n - 1)
    ELSE <<>>

\* getRange that leaves a start below the first rank where it is
SLGetRange_StartNotRaised(sl, start, stop) ==
    LET start1 == IF start < 0 THEN sl.length + start ELSE start
        stop1 == IF stop < 0 THEN sl.length + stop ELSE stop
        stop2 == IF stop1 >= sl.length THEN sl.length - 1 ELSE stop1
    IN  IF start1 > stop2 THEN <<>>
        ELSE CollectNodes(sl, SkipNodes(sl, sl.nodes[HeadNode].forward[1], start1),
                          stop2 - start1 + 1)

\* skiplist.getRange(start, stop): the node pointers, in order
SLGetRange(sl, start, stop) ==
    LET start1 == IF start < 0 THEN sl.length + start ELSE start
        stop1 == IF stop < 0 THEN sl.length + stop ELSE stop
        start2 == IF start1 < 0 THEN 0 ELSE start1
        stop2 == IF stop1 >= sl.length THEN sl.length - 1 ELSE stop1
    IN  IF start2 > stop2 THEN <<>>
        ELSE CollectNodes(sl, SkipNodes(sl, sl.nodes[HeadNode].forward[1], start2),
                          stop2 - start2 + 1)

\* ----------------------------------------------------------- sorted set
\* A SortedSet: alloc tells whether dict and sl are allocated (non-nil)
\* &SortedSet{}: nil dict, nil sl, nil slices
ZeroSortedSet ==
    [alloc |-> FALSE, dict |-> [m \in {} |-> 0], sl |-> NilSkiplist,
     scores |-> <<>>, members |-> <<>>]

\* SortedSet.Add(member, score): the assignment to a nil dict panics before
\* anything is changed
SortedSetAdd(s, member, score, level) ==
    IF ~s.alloc
    THEN [set |-> s, panic |-> TRUE]
    ELSE [set |-> [alloc |-> TRUE,
                   dict |-> MapPut(s.dict, member, score),
                   sl |-> SLInsert(s.sl, score, member, level).sl,
                   scores |-> Append(s.scores, score),
                   members |-> Append(s.members, member)],
          panic |-> FALSE]

\* The SortedSet of the earlier store has a dict and a skiplist only;
\* &SortedSet{} is what its ZAdd puts at an absent key
EarlierZeroSortedSet ==
    [alloc |-> FALSE, dict |-> [m \in {} |-> 0], sl |-> NilSkiplist]

\* SortedSet.Add(score, member) of the earlier store: allocates dict and
\* sl on first use, returns false for a member that has the score already,
\* else writes dict and returns what sl.insert returns
EarlierSortedSetAdd(s, score, member, level) ==
    LET dict == s.dict
        sl == IF s.alloc THEN s.sl ELSE newSkiplist
    IN  IF member \in DOMAIN dict /\ dict[member] = score
        THEN [set |-> [alloc |-> TRUE, dict |-> dict, sl |-> sl], added |-> FALSE]
        ELSE LET r == SLInsert(sl, score, member, level)
             IN  [set |-> [alloc |-> TRUE, dict |-> MapPut(dict, member, score),
                           sl |-> r.sl],
                  added |-> r.ok]

\* The elements of a reply: a member or a score
MemberItem(m) == [kind |-> "member", member |-> m, score |-> 0]
ScoreItem(x) == [kind |-> "score", member |-> "", score |-> x]

\* The result loop of Range over the nodes getRange returned
RECURSIVE RangeItems(_, _, _)
RangeItems(sl, ids, withScores) ==
    IF ids = <<>> THEN <<>>
    ELSE LET node == sl.nodes[Head(ids)]
         IN  (IF withScores
              THEN <<MemberItem(node.member), ScoreItem(node.score)>>
              ELSE <<MemberItem(node.member)>>)
             \o RangeItems(sl, Tail(ids), withScores)

\* SortedSet.Range(start, stop, withScores)
SortedSetRange(s, start, stop, withScores) ==
    IF ~s.alloc \/ DOMAIN s.dict = {}
    THEN <<>>
    ELSE RangeItems(s.sl, SLGetRange(s.sl, start, stop), withScores)

\* The forward loop of RangeByScore from index i (1-based) on
RECURSIVE ScoreScan(_, _, _, _)
ScoreScan(s, min, max, i) ==
    IF i > Len(s.scores) THEN <<>>
    ELSE (IF s.scores[i] >= min /\ s.scores[i] <= max
          THEN <<MemberItem(s.members[i])>> ELSE <<>>)
         \o ScoreScan(s, min, max, i + 1)

\* A sequence back to front: the loops that run from len - 1 down to 0
Reverse(seq) == [i \in 1..Len(seq) |-> seq[Len(seq) + 1 - i]]

\* SortedSet.RangeByScore(min, max, rev)
SortedSetRangeByScore(s, min, max, rev) ==
    IF rev THEN Reverse(ScoreScan(s, min, max, 1)) ELSE ScoreScan(s, min, max, 1)

\* The forward loop of RangeByLex from index i (1-based) on
RECURSIVE LexScan(_, _, _, _)
LexScan(s, min, max, i) ==
    IF i > Len(s.members) THEN <<>>
    ELSE (IF StrLeq(min, s.members[i]) /\ StrLeq(s.members[i], max)
          THEN <<MemberItem(s.members[i])>> ELSE <<>>)
         \o LexScan(s, min, max, i + 1)

\* SortedSet.RangeByLex(min, max, rev)
SortedSetRangeByLex(s, min, max, rev) ==
    IF rev THEN Reverse(LexScan(s, min, max, 1)) ELSE LexScan(s, min, max, 1)

\* ------------------------------------------------------- ZRANGE options
\* A *ZRangeOptions; nil is the Go nil pointer
MkZRangeOpts(isNil, rangeType, rev, withScores, offset, count) ==
    [nil |-> isNil, RangeType |-> rangeType, Rev |-> rev,
     WithScores |-> withScores, LimitOffset |-> offset, LimitCount |-> count]

NilZRangeOpts == MkZRangeOpts(TRUE, "", FALSE, FALSE, 0, 0)

\* NewZRangeOptions(): no range type, no flag, LIMIT 0 0
NewZRangeOptions == MkZRangeOpts(FALSE, "", FALSE, FALSE, 0, 0)

IsByScore(opts) == opts.RangeType = "BYSCORE"
IsByLex(opts) == opts.RangeType = "BYLEX"
IsRev(opts) == opts.Rev
IsWithScores(opts) == opts.WithScores

\* The start and stop arguments of ZRange are interface{} values
IntArg(n) == [type |-> "int", num |-> n, str |-> ""]
FloatArg(x) == [type |-> "float64", num |-> x, str |-> ""]
StrArg(str) == [type |-> "string", num |-> 0, str |-> str]

ErrInvalidRange == "InvalidRange"

\* The LIMIT step of ZRange: applied to the result of every range type
ApplyLimit(result, opts) ==
    IF ~opts.nil /\ opts.LimitCount > 0
    THEN IF opts.LimitOffset >= Len(result)
         THEN <<>>
         ELSE LET end == IF opts.LimitOffset + opts.LimitCount > Len(result)
                         THEN Len(result)
                         ELSE opts.LimitOffset + opts.LimitCount
              IN  SubSeq(result, opts.LimitOffset + 1, end)
    ELSE result

\* The branch of ZRange for a key that holds the sorted set zset
ZRangeOf(zset, start, stop, opts) ==
    IF ~opts.nil /\ IsByScore(opts)
    THEN IF start.type # "float64" \/ stop.type # "float64"
         THEN [result |-> <<>>, err |-> ErrInvalidRange]
         ELSE [result |-> ApplyLimit(SortedSetRangeByScore(zset, start.num, stop.num,
                                                           IsRev(opts)), opts),
               err |-> NoErr]
    ELSE IF ~opts.nil /\ IsByLex(opts)
    THEN IF start.type # "string" \/ stop.type # "string"
         THEN [result |-> <<>>, err |-> ErrInvalidRange]
         ELSE [result |-> ApplyLimit(SortedSetRangeByLex(zset, start.str, stop.str,
                                                         IsRev(opts)), opts),
               err |-> NoErr]
    ELSE IF start.type # "int" \/ stop.type # "int"
         THEN [result |-> <<>>, err |-> ErrInvalidRange]
         ELSE [result |-> ApplyLimit(SortedSetRange(zset, start.num, stop.num,
                                         ~opts.nil /\ IsWithScores(opts)), opts),
               err |-> NoErr]

\* --------------------------------------------------- sorted-set commands
\* Options.options after NewZAddOptions: name -> Incompatible
ZAddRegistry ==
    [name \in {"NX", "XX", "GT", "LT", "CH", "INCR"} |->
        CASE name = "NX" -> {"XX"}
          [] name = "XX" -> {"NX"}
          [] name = "GT" -> {"LT"}
          [] name = "LT" -> {"GT"}
          [] name = "CH" -> {}
          [] OTHER -> {"NX", "XX", "GT", "LT"}]

IsCH(opts) == "CH" \in opts.active
IsINCR(opts) == "INCR" \in opts.active

\* The calls of Set a caller of the store makes on a new option object:
\* none, one, or two in either order
ZAddNameSeqs == NameSeqs(ZAddRegistry)

\* The option objects a caller can hand to MemoryStore.ZAdd: the nil
\* pointer, and what NewZAddOptions returns after calls of Set that all
\* returned no error.  Set looks at the list of the new name only, so a
\* guard after INCR is accepted.  These are the objects of the store's
\* interface; the commands createCommand builds from the requests of a
\* connection are those of CreateZAdd
ZAddOptionsAll ==
    {NilOpts} \cup
    {MkOpts(FALSE, ParseOptions(ZAddRegistry, {}, names).active, NoExpiry) :
        names \in {t \in ZAddNameSeqs : ParseOptions(ZAddRegistry, {}, t).err = NoErr}}

\* types.ScoreMember
ScoreMember(score, member) == [Score |-> score, Member |-> member]

\* The keys a ZADD names: the keys, and the option word that a request with
\* options carries in the key's place
ZKeys == Keys \cup {"XX"}

\* The *SortedSet values of data: one pointer per key, since only data[key]
\* ever refers to the set that ZAdd allocated for key
ZPtr == [k \in ZKeys |-> CASE k = "k1" -> "zset@k1" [] k = "k2" -> "zset@k2"
                             [] OTHER -> "zset@XX"]
ZPtrs == {ZPtr[k] : k \in ZKeys}

EmptyHeap == [ptr \in {} |-> ZeroSortedSet]

\* The sets no value of data points to any more are dropped from the heap
HeapCollect(d, heap) ==
    [ptr \in {q \in DOMAIN heap : \E k \in DOMAIN d : d[k] = q} |-> heap[ptr]]

\* The member loop of ZAdd from member i on; a panic of Add ends the call
RECURSIVE ZAddLoop(_, _, _, _, _, _)
ZAddLoop(zset, members, opts, levels, i, changed) ==
    IF i > Len(members)
    THEN [set |-> zset, changed |-> changed, panic |-> FALSE]
    ELSE
      LET sm == members[i]
          exists == sm.Member \in DOMAIN zset.dict
          oldScore == IF exists THEN zset.dict[sm.Member] ELSE 0
          skip == ~opts.nil /\
                    \/ IsNX(opts) /\ exists
                    \/ IsXX(opts) /\ ~exists
                    \/ IsGT(opts) /\ exists /\ sm.Score <= oldScore
                    \/ IsLT(opts) /\ exists /\ sm.Score >= oldScore
      IN  IF skip
          THEN ZAddLoop(zset, members, opts, levels, i + 1, changed)
          ELSE LET r == SortedSetAdd(zset, sm.Member, sm.Score, levels[i])
               IN  IF r.panic
                   THEN [set |-> r.set, changed |-> changed, panic |-> TRUE]
                   ELSE ZAddLoop(r.set, members, opts, levels, i + 1, changed + 1)

\* MemoryStore.ZAdd(key, members, opts).  The reply is n of the given kind
\* ("int", "float64" or "nil"); panic tells that the call did not return.
StoreZAdd(d, heap, key, members, opts, levels) ==
    IF key \in DOMAIN d /\ d[key] \notin ZPtrs
    THEN [data |-> d, heap |-> heap, n |-> 0, kind |-> "nil",
          err |-> ErrWrongType, panic |-> FALSE]
    ELSE
      LET ptr == ZPtr[key]
          d1 == IF key \in DOMAIN d THEN d ELSE MapPut(d, key, ptr)
          heap1 == IF key \in DOMAIN d THEN heap ELSE MapPut(heap, ptr, ZeroSortedSet)
          zset == heap1[ptr]
          reply(set, n, kind, err, panic) ==
              [data |-> d1, heap |-> MapPut(heap1, ptr, set), n |-> n,
               kind |-> kind, err |-> err, panic |-> panic]
      IN  IF ~opts.nil /\ IsINCR(opts)
          THEN IF Len(members) # 1
               THEN reply(zset, 0, "nil", ErrInvalidArgument, FALSE)
               ELSE IF members[1].Member \notin DOMAIN zset.dict
               THEN reply(zset, 0, "nil", ErrNotFound, FALSE)
               ELSE LET newScore == zset.dict[members[1].Member] + members[1].Score
                        r == SortedSetAdd(zset, members[1].Member, newScore, levels[1])
                    IN  IF r.panic
                        THEN reply(r.set, 0, "nil", NoErr, TRUE)
                        ELSE reply(r.set, newScore, "float64", NoErr, FALSE)
          ELSE LET r == ZAddLoop(zset, members, opts, levels, 1, 0)
               IN  IF r.panic
                   THEN reply(r.set, 0, "nil", NoErr, TRUE)
                   ELSE reply(r.set,
                              IF ~opts.nil /\ IsCH(opts) THEN r.changed ELSE Len(members),
                              "int", NoErr, FALSE)

\* MemoryStore.ZRange(key, start, stop, opts)
StoreZRange(d, heap, key, start, stop, opts) ==
    IF key \in DOMAIN d
    THEN IF d[key] \in ZPtrs
         THEN ZRangeOf(heap[d[key]], start, stop, opts)
         ELSE [result |-> <<>>, err |-> ErrWrongType]
    ELSE [result |-> <<>>, err |-> NoErr]

\* ------------------------------------------------------------- the calls
NoArm == [key |-> Nil, ttl |-> 0, at |-> 0]

\* No DEL command is between two of its keys
NoDel == [keys |-> <<>>, i |-> 0, n |-> 0, preData |-> EmptyMap, preExpires |-> EmptyMap]

Call(op, key, keys, value, opts, ttl, pattern, result, n, found, err) ==
    [op |-> op, key |-> key, keys |-> keys, value |-> value, opts |-> opts,
     ttl |-> ttl, pattern |-> pattern, result |-> result, n |-> n,
     found |-> found, err |-> err,
     preData |-> data, preExpires |-> expires, at |-> now]

NoCall == [op |-> "none", key |-> Nil, keys |-> <<>>, value |-> Nil,
           opts |-> NilOpts, ttl |-> 0, pattern |-> Nil, result |-> Nil,
           n |-> 0, found |-> {}, err |-> NoErr,
           preData |-> EmptyMap, preExpires |-> EmptyMap, at |-> 0]

\* A sorted-set call: inputs, reply, and the data and heap it found
ZCall(op, key, members, opts, start, stop, ropts, result, n, kind, err, panic) ==
    [op |-> op, key |-> key, members |-> members, opts |-> opts,
     start |-> start, stop |-> stop, ropts |-> ropts, result |-> result,
     n |-> n, kind |-> kind, err |-> err, panic |-> panic,
     preData |-> data, preHeap |-> zHeap]

NoZCall == [op |-> "none", key |-> Nil, members |-> <<>>, opts |-> NilOpts,
            start |-> IntArg(0), stop |-> IntArg(0), ropts |-> NilZRangeOpts,
            result |-> <<>>, n |-> 0, kind |-> "nil", err |-> NoErr,
            panic |-> FALSE, preData |-> EmptyMap, preHeap |-> EmptyHeap]

\* A call on the skiplist taken on its own: inputs, reply, the list
\* before, and how many inserts there have been
SLCall(op, member, score, level, start, stop, result, inserts) ==
    [op |-> op, member |-> member, score |-> score, level |-> level,
     start |-> start, stop |-> stop, result |-> result,
     pre |-> skl, inserts |-> inserts]

NoSLCall == [op |-> "none", member |-> "", score |-> 0, level |-> 0,
             start |-> 0, stop |-> 0, result |-> <<>>,
             pre |-> newSkiplist, inserts |-> 0]

\* The members a zAdd supplies from pair i on, put into the history
\* one after the other: a later score of a member replaces the earlier
RECURSIVE Supplied(_, _, _)
Supplied(added, members, i) ==
    IF i > Len(members) THEN added
    ELSE Supplied(MapPut(added, members[i].Member, members[i].Score), members, i + 1)

\* The history of supplied members is kept while the key holds a sorted set
ZAddedAfter(d, added) ==
    [k \in Keys |->
        IF k \in DOMAIN d /\ d[k] \in ZPtrs THEN added[k] ELSE EmptyMap]

\* What a command that is not a sorted-set command leaves of the sorted
\* sets: the sets its change of data made unreachable are gone
AfterStoreCall ==
    /\ zHeap' = HeapCollect(data', zHeap)
    /\ zLast' = NoZCall
    /\ zAdded' = ZAddedAfter(data', zAdded)
    /\ UNCHANGED <<ssVars, auxVars>>

\* The same for a command that is over when its one call returns
AfterStringCall ==
    /\ AfterStoreCall
    /\ UNCHANGED delRun

NoOCall == [op |-> "none", name |-> "", err |-> NoErr, pre |-> {}]

\* No ZADD command built
NoZAddCommand == [Key |-> "", Members |-> <<>>, Options |-> NilOpts]

\* No request parsed yet
NoPCall == [op |-> "none", start |-> "", stop |-> "", args |-> <<>>,
            err |-> NoErr, cmd |-> [Start |-> IntArg(0), Stop |-> IntArg(0),
                                    Options |-> NilZRangeOpts],
            zadd |-> NoZAddCommand, panic |-> FALSE]

\* The goroutines that call the store
Procs == {"p1", "p2"}

\* The zero sync.RWMutex: the writers' mutex w free, no writer and no
\* reader inside, no reader blocked behind a writer
NewMutex == [w |-> "none", writer |-> "none", readers |-> {}, blocked |-> {}]

\* A goroutine that has made no call
NoProc == [pc |-> "idle", op |-> "none", key |-> "", value |-> Nil,
           opts |-> NilOpts, expired |-> FALSE, result |-> Nil, seconds |-> 0,
           ttl |-> 0, err |-> NoErr]

\* No call of matchPattern yet
NoGCall == [op |-> "none", str |-> <<>>, pattern |-> <<>>, matched |-> FALSE]

\* The client connections
Conns == {"c1", "c2"}

\* server.New(address): no listener yet, quit open, wait group at zero
NewServer ==
    [listener |-> "none", quit |-> "open", wg |-> 0,
     start |-> "idle", stop |-> "idle", accept |-> "none", process |-> "running"]

\* Nothing on the wire, no command parsed, nothing to write
NoRequest == [frame |-> "none", words |-> <<>>]
NoCommand == [name |-> "", Key |-> "", Value |-> "", Members |-> <<>>, Options |-> NilOpts]
Reply(kind, text, n) == [kind |-> kind, text |-> text, n |-> n]
NoReply == Reply("none", "", 0)

\* A client that has not dialled
NoConn ==
    [client |-> "none", handler |-> "none", wire |-> NoRequest, sent |-> 0,
     cur |-> NoRequest, cmd |-> NoCommand, reply |-> NoReply,
     lastReq |-> NoRequest, lastReply |-> NoReply, cause |-> "none"]

Init ==
    /\ data = EmptyMap
    /\ expires = EmptyMap
    /\ now = 0
    /\ last = NoCall
    /\ lastWrite = [k \in Keys |-> Nil]
    /\ plain = [k \in Keys |-> TRUE]
    /\ armed = NoArm
    /\ delRun = NoDel
    /\ zHeap = EmptyHeap
    /\ zLast = NoZCall
    /\ zAdded = [k \in Keys |-> EmptyMap]
    /\ ssSet = EarlierZeroSortedSet
    /\ skl = newSkiplist
    /\ sklLast = NoSLCall
    /\ oActive = {}
    /\ oLast = NoOCall
    /\ oActivated = {}
    /\ srv = NewServer
    /\ conns = [c \in Conns |-> NoConn]
    /\ gLast = NoGCall
    /\ mu = NewMutex
    /\ procs = [p \in Procs |-> NoProc]
    /\ written = [k \in Keys |-> Nil]
    /\ pLast = NoPCall

\* GetCommand.Execute
Get(key) ==
    LET r == StoreGet(data, expires, key, now)
    IN  /\ data' = r.data
        /\ expires' = r.expires
        /\ last' = Call("get", key, <<>>, Nil, NilOpts, 0, Nil, r.result, 0, {}, r.err)
        /\ armed' = NoArm
        /\ UNCHANGED <<now, lastWrite, plain>>
        /\ AfterStringCall

\* SetCommand.Execute
Set(key, value, opts) ==
    LET r == StoreSet(data, expires, key, value, opts)
    IN  /\ data' = r.data
        /\ expires' = r.expires
        /\ last' = Call("set", key, <<>>, value, opts, 0, Nil, r.result, 0, {}, r.err)
        /\ plain' = IF opts.ExpiryType # "" THEN [plain EXCEPT ![key] = FALSE]
                    ELSE plain
        /\ lastWrite' = IF ~plain'[key] THEN [lastWrite EXCEPT ![key] = Nil]
                        ELSE IF r.err = NoErr THEN [lastWrite EXCEPT ![key] = value]
                        ELSE lastWrite
        /\ armed' = NoArm
        /\ UNCHANGED now
        /\ AfterStringCall

\* The reply of a DEL command, with the maps the command found when it
\* started
DelReply(keys, n, preData, preExpires) ==
    [Call("del", Nil, keys, Nil, NilOpts, 0, Nil, Nil, n, {}, NoErr)
        EXCEPT !.preData = preData, !.preExpires = preExpires]

\* DelCommand.Execute up to the return of its first store.Del: the command
\* is over if that was its only key, else it is between two keys and the
\* store is unlocked.  One DEL command at a time has more than one key
Del(keys) ==
    LET r == DelExecute(data, expires, keys[1], 0)
    IN  /\ delRun = NoDel
        /\ data' = r.data
        /\ expires' = r.expires
        /\ IF Len(keys) = 1
           THEN /\ last' = DelReply(keys, r.n, data, expires)
                /\ delRun' = NoDel
           ELSE /\ last' = NoCall
                /\ delRun' = [keys |-> keys, i |-> 1, n |-> r.n,
                              preData |-> data, preExpires |-> expires]
        /\ lastWrite' = [lastWrite EXCEPT ![keys[1]] = Nil]
        /\ armed' = NoArm
        /\ UNCHANGED <<now, plain>>
        /\ AfterStoreCall

\* DelCommand.Execute, the next round of the loop, and the return after
\* the last one
DelNext ==
    /\ delRun # NoDel
    /\ LET key == delRun.keys[delRun.i + 1]
           r == DelExecute(data, expires, key, delRun.n)
       IN  /\ data' = r.data
           /\ expires' = r.expires
           /\ IF delRun.i + 1 = Len(delRun.keys)
              THEN /\ last' = DelReply(delRun.keys, r.n, delRun.preData, delRun.preExpires)
                   /\ delRun' = NoDel
              ELSE /\ last' = NoCall
                   /\ delRun' = [delRun EXCEPT !.i = @ + 1, !.n = r.n]
           /\ lastWrite' = [lastWrite EXCEPT ![key] = Nil]
    /\ armed' = NoArm
    /\ UNCHANGED <<now, plain>>
    /\ AfterStoreCall

\* ExpireCommand.Execute: the parser turns the seconds into a duration
Expire(key, seconds, opts) ==
    LET ttl == seconds * TicksPerSecond
        r == StoreExpire(data, expires, key, ttl, opts, now)
    IN  /\ data' = r.data
        /\ expires' = r.expires
        /\ last' = Call("expire", key, <<>>, Nil, opts, ttl, Nil, Nil, 0, {}, r.err)
        /\ plain' = [plain EXCEPT ![key] = FALSE]
        /\ lastWrite' = [lastWrite EXCEPT ![key] = Nil]
        /\ armed' = IF r.err = NoErr /\ ttl > 0
                    THEN [key |-> key, ttl |-> ttl, at |-> now]
                    ELSE NoArm
        /\ UNCHANGED now
        /\ AfterStringCall

\* TtlCommand.Execute
TTL(key) ==
    /\ last' = Call("ttl", key, <<>>, Nil, NilOpts, 0, Nil, Nil,
                    StoreTTL(data, expires, key, now), {}, NoErr)
    /\ UNCHANGED <<data, expires, now, lastWrite, plain, armed>>
    /\ AfterStringCall

\* KeysCommand.Execute
KeysCmd(pattern) ==
    /\ last' = Call("keys", Nil, <<>>, Nil, NilOpts, 0, pattern, Nil, 0,
                    StoreKeys(data, expires, pattern, now), NoErr)
    /\ armed' = NoArm
    /\ UNCHANGED <<data, expires, now, lastWrite, plain>>
    /\ AfterStringCall

\* The clock advances by one tick
Tick ==
    /\ now < MaxTime
    /\ now' = now + 1
    /\ last' = NoCall
    /\ armed' = IF armed # NoArm /\ now' - armed.at < TicksPerSecond THEN armed ELSE NoArm
    /\ UNCHANGED <<data, expires, lastWrite, plain>>
    /\ AfterStringCall

Next ==
    \/ \E key \in Keys : Get(key)
    \/ \E key \in Keys, value \in Values :
          \E opts \in (IF key \in OptKeys THEN SetOptionsAt(now) ELSE {EmptyOpts}) :
            Set(key, value, opts)
    \/ \E key \in Keys : Del(<<key>>)
    \/ \E key \in OptKeys, seconds \in -1..MaxTTLSeconds, opts \in ExpireOptionsAll :
            Expire(key, seconds, opts)
    \/ \E key \in Keys : TTL(key)
    \/ \E pattern \in Patterns : KeysCmd(pattern)
    \/ Tick

Spec == Init /\ [][Next]_vars

\* ------------------------------------------------ DEL with several keys
\* The key lists of the DEL commands
DelKeySeqs ==
    UNION {[1..n -> Keys] : n \in 1..MaxDelKeys}

\* A DEL command with several keys calls the store once per key, and the
\* commands of the other connections run between those calls
NextD ==
    \/ \E keys \in DelKeySeqs : Del(keys)
    \/ DelNext
    \/ \E key \in Keys, value \in Values : Set(key, value, EmptyOpts)
    \/ \E key \in Keys : Get(key)
    \/ \E pattern \in Patterns : KeysCmd(pattern)

SpecD == Init /\ [][NextD]_vars

\* ------------------------------------------- the store with sorted sets
\* The requests of a ZADD: one pair, or two pairs that name one member
\* twice with different scores or two members
ScoreMembers == {ScoreMember(x, m) : x \in 1..MaxScore, m \in Members}
ZAddRequests ==
    {<<p>> : p \in ScoreMembers}
    \cup {<<ScoreMember(1, "a"), q>> :
             q \in {ScoreMember(MaxScore, "a"), ScoreMember(1, "b")}}

\* The levels randomLevel() returns to the Add calls of one ZADD.  A set
\* whose dict is nil panics before a level is drawn.
ZAddLevels(key, n) ==
    IF key \in DOMAIN data /\ data[key] \in ZPtrs /\ zHeap[data[key]].alloc
    THEN [1..n -> 1..MaxNodeLevel]
    ELSE {[i \in 1..n |-> 1]}

\* The ZRANGE calls the parser builds: start and stop have the type the
\* range type asks for
ZRangeCalls ==
    {[start |-> IntArg(0), stop |-> IntArg(-1), ropts |-> o] :
        o \in {NilZRangeOpts, NewZRangeOptions,
               MkZRangeOpts(FALSE, "", FALSE, TRUE, 0, 0)}}
    \cup {[start |-> FloatArg(1), stop |-> FloatArg(MaxScore),
           ropts |-> MkZRangeOpts(FALSE, "BYSCORE", rev, FALSE, 0, 0)] :
             rev \in BOOLEAN}
    \cup {[start |-> StrArg("a"), stop |-> StrArg("b"),
           ropts |-> MkZRangeOpts(FALSE, "BYLEX", FALSE, FALSE, 0, 0)]}

\* The ZRANGE calls with REV and no range type, and with WITHSCORES and
\* a range type
ZRangeFlagCalls ==
    {[start |-> IntArg(0), stop |-> IntArg(-1),
      ropts |-> MkZRangeOpts(FALSE, "", TRUE, FALSE, 0, 0)],
     [start |-> FloatArg(1), stop |-> FloatArg(MaxScore),
      ropts |-> MkZRangeOpts(FALSE, "BYSCORE", FALSE, TRUE, 0, 0)],
     [start |-> StrArg("a"), stop |-> StrArg("b"),
      ropts |-> MkZRangeOpts(FALSE, "BYLEX", FALSE, TRUE, 0, 0)]}

\* ZAddCommand.Execute: the fields of the command go to MemoryStore.ZAdd as
\* they are.  A panic of the store unwinds through the deferred Unlock, so
\* the store is left unlocked with what the call had written.
ZAddReturns(key, members, opts, r) ==
    /\ data' = r.data
    /\ zHeap' = r.heap
    /\ zLast' = ZCall("zadd", key, members, opts, IntArg(0), IntArg(0),
                      NilZRangeOpts, <<>>, r.n, r.kind, r.err, r.panic)
    /\ zAdded' = IF r.err = NoErr /\ (opts.nil \/ opts.active = {})
                 THEN [zAdded EXCEPT ![key] = Supplied(@, members, 1)]
                 ELSE zAdded
    /\ last' = NoCall
    /\ armed' = NoArm
    /\ UNCHANGED <<expires, now, lastWrite, plain, delRun, ssVars, auxVars>>

ZAdd(key, members, opts, levels) ==
    ZAddReturns(key, members, opts,
                StoreZAdd(data, zHeap, key, members, opts, levels))

\* ZRangeCommand.Execute
ZRange(key, start, stop, ropts) ==
    LET r == StoreZRange(data, zHeap, key, start, stop, ropts)
    IN  /\ zLast' = ZCall("zrange", key, <<>>, NilOpts, start, stop, ropts,
                          r.result, 0, "nil", r.err, FALSE)
        /\ last' = NoCall
        /\ armed' = NoArm
        /\ UNCHANGED <<data, expires, now, lastWrite, plain, delRun, zHeap, zAdded, ssVars, auxVars>>

\* The option objects of the SETs issued next to the sorted-set commands
ZSetOptions == {EmptyOpts, MkOpts(FALSE, {"GET"}, NoExpiry)}

NextZ ==
    \/ \E key \in Keys :
          \E opts \in (IF key \in OptKeys THEN ZAddOptionsAll ELSE {NilOpts}) :
            \E members \in ZAddRequests :
              \E levels \in ZAddLevels(key, Len(members)) :
                ZAdd(key, members, opts, levels)
    \/ \E key \in Keys, c \in ZRangeCalls \cup ZRangeFlagCalls :
          ZRange(key, c.start, c.stop, c.ropts)
    \/ \E key \in Keys : Get(key)
    \/ \E key \in Keys, value \in Values, opts \in ZSetOptions : Set(key, value, opts)
    \/ \E key \in Keys : Del(<<key>>)

SpecZ == Init /\ [][NextZ]_vars

\* ------------------------------------ sorted sets and the passing of time
\* The SETs, with and without an expiry, and the ZADD options issued while
\* the clock runs
ESetOptions == {EmptyOpts, MkOpts(FALSE, {}, SetExpiry(NoExpiry, "PX", MaxExpiryValue, now))}
EZAddOptions == {NilOpts, MkOpts(FALSE, {"XX"}, NoExpiry)}

NextE ==
    \/ \E key \in OptKeys, opts \in EZAddOptions, members \in ZAddRequests :
          \E levels \in ZAddLevels(key, Len(members)) :
            ZAdd(key, members, opts, levels)
    \/ \E key \in OptKeys, c \in ZRangeCalls : ZRange(key, c.start, c.stop, c.ropts)
    \/ \E key \in OptKeys, value \in Values, opts \in ESetOptions : Set(key, value, opts)
    \/ \E key \in OptKeys : Expire(key, MaxTTLSeconds, NilOpts)
    \/ \E key \in OptKeys : Get(key)
    \/ Tick

SpecE == Init /\ [][NextE]_vars

\* ------------------------------ every operation that writes, and the clock
\* The option objects of the SETs: none, an expiry, KEEPTTL
WSetOptions ==
    ESetOptions \cup {MkOpts(FALSE, {}, SetExpiry(NoExpiry, "KEEPTTL", 0, now))}

\* get, set, del, expire and zAdd on both keys, expiries on one of them
NextW ==
    \/ \E key \in Keys : Get(key)
    \/ \E key \in Keys, value \in Values :
          \E opts \in (IF key \in OptKeys THEN WSetOptions ELSE {EmptyOpts}) :
            Set(key, value, opts)
    \/ \E key \in Keys : Del(<<key>>)
    \/ \E key \in OptKeys, seconds \in -1..MaxTTLSeconds : Expire(key, seconds, NilOpts)
    \/ \E key \in Keys, members \in {<<p>> : p \in ScoreMembers} :
          \E levels \in ZAddLevels(key, Len(members)) :
            ZAdd(key, members, NilOpts, levels)
    \/ Tick

SpecW == Init /\ [][NextW]_vars

\* --------------------------- a sorted set of the earlier store on its own
\* zset.Add(score, member) as the ZAdd of the earlier store calls it on the
\* set it put at the key
SSAdd(score, member, level) ==
    /\ ~ssSet.alloc \/ ssSet.sl.length < MaxAdds
    /\ ssSet' = EarlierSortedSetAdd(ssSet, score, member, level).set
    /\ UNCHANGED <<skl, sklLast, storeVars, zVars, auxVars>>

NextSS ==
    \E score \in 1..MaxScore, member \in Members, level \in 1..MaxNodeLevel :
       SSAdd(score, member, level)

SpecSS == Init /\ [][NextSS]_vars

\* ------------------------------------------ the skiplist taken on its own
\* sl.insert(score, member)
SkInsert(score, member, level) ==
    /\ sklLast.inserts < MaxAdds
    /\ skl' = SLInsert(skl, score, member, level).sl
    /\ sklLast' = SLCall("insert", member, score, level, 0, 0, <<>>,
                         sklLast.inserts + 1)
    /\ UNCHANGED <<ssSet, storeVars, zVars, auxVars>>

\* The indices getRange is called with: beyond both ends of the index
RankArgs == (0 - MaxRank)..MaxRank

\* sl.getRange(start, stop)
SkGetRange(start, stop) ==
    /\ sklLast' = SLCall("getRange", "", 0, 0, start, stop,
                         SLGetRange(skl, start, stop), sklLast.inserts)
    /\ UNCHANGED <<skl, ssSet, storeVars, zVars, auxVars>>

\* The ordered index built by insert and read by getRange.  getRange
\* changes nothing, so a behaviour is a run of inserts and one read.
NextR ==
    /\ sklLast.op # "getRange"
    /\ \/ \E member \in Members, score \in {1, MaxScore}, level \in {1, MaxNodeLevel} :
             SkInsert(score, member, level)
       \/ \E start \in RankArgs, stop \in RankArgs : SkGetRange(start, stop)

SpecR == Init /\ [][NextR]_vars

\* The ordered index under inserts alone: three scores, so that an insert
\* can lower the score of a node that a second node of the member follows
NextI ==
    \E member \in Members, score \in 0..MaxScore, level \in {1, MaxNodeLevel} :
       SkInsert(score, member, level)

SpecI == Init /\ [][NextI]_vars

\* ----------------------------------------- an option object on its own
\* The names handed to Set: the registered ones, two of them in lower
\* case, and one that is not registered
OptionNames == DOMAIN ZAddRegistry \cup {"nx", "incr", "ZZ"}

\* opts.Set(name) on an object made by NewZAddOptions
OSet(name) ==
    LET r == OptionsSet(ZAddRegistry, oActive, name)
    IN  /\ oActive' = r.active
        /\ oLast' = [op |-> "set", name |-> name, err |-> r.err, pre |-> oActive]
        /\ oActivated' = IF r.err = NoErr THEN oActivated \cup {ToUpper(name)}
                          ELSE oActivated
        /\ UNCHANGED notO

\* opts.Clear()
OClear ==
    /\ oActive' = OptionsClear
    /\ oLast' = [op |-> "clear", name |-> "", err |-> NoErr, pre |-> oActive]
    /\ oActivated' = {}
    /\ UNCHANGED notO

NextO ==
    \/ \E name \in OptionNames : OSet(name)
    \/ OClear

SpecO == Init /\ [][NextO]_vars

\* --------------------------------------------------- parsing of ZRANGE
\* The arguments a ZRANGE request carries after key, start and stop
ZRangeTokens ==
    {"BYSCORE", "BYLEX", "bylex", "REV", "WITHSCORES", "LIMIT", "0", "1", "-1", "FOO"}

\* The start and stop arguments: a number and a member name
RangeEnds == {"0", "a"}

ErrSyntax == "Syntax"

\* strconv.Atoi and strconv.ParseFloat on the arguments of the requests
Atoi(arg) ==
    CASE arg = "0" -> [ok |-> TRUE, n |-> 0]
      [] arg = "1" -> [ok |-> TRUE, n |-> 1]
      [] arg = "2" -> [ok |-> TRUE, n |-> 2]
      [] arg = "-1" -> [ok |-> TRUE, n |-> -1]
      [] OTHER -> [ok |-> FALSE, n |-> 0]

ParseFloat(arg) == Atoi(arg)

\* ZRangeOptions.SetRangeType(rangeType)
SetRangeType(opts, rangeType) ==
    IF rangeType \in {"BYSCORE", "BYLEX"}
    THEN [opts |-> [opts EXCEPT !.RangeType = rangeType], err |-> NoErr]
    ELSE [opts |-> opts, err |-> ErrInvalidArgument]

\* ZRangeOptions.SetLimit(offset, count)
SetLimit(opts, offset, count) ==
    IF offset < 0 \/ count < 0
    THEN [opts |-> opts, err |-> ErrInvalidArgument]
    ELSE [opts |-> [opts EXCEPT !.LimitOffset = offset, !.LimitCount = count],
          err |-> NoErr]

\* The option loop of createCommand for ZRANGE, from argument i on (the
\* first argument after stop is 1 here)
RECURSIVE ParseZRangeArgs(_, _, _)
ParseZRangeArgs(args, i, opts) ==
    IF i > Len(args) THEN [opts |-> opts, err |-> NoErr]
    ELSE
      LET opt == ToUpper(args[i])
      IN  CASE opt \in {"BYSCORE", "BYLEX"} ->
                 LET r == SetRangeType(opts, opt)
                 IN  IF r.err # NoErr THEN [opts |-> opts, err |-> r.err]
                     ELSE ParseZRangeArgs(args, i + 1, r.opts)
            [] opt = "REV" -> ParseZRangeArgs(args, i + 1, [opts EXCEPT !.Rev = TRUE])
            [] opt = "WITHSCORES" ->
                 ParseZRangeArgs(args, i + 1, [opts EXCEPT !.WithScores = TRUE])
            [] opt = "LIMIT" ->
                 IF i + 2 > Len(args) THEN [opts |-> opts, err |-> ErrSyntax]
                 ELSE IF ~Atoi(args[i + 1]).ok \/ ~Atoi(args[i + 2]).ok
                 THEN [opts |-> opts, err |-> ErrInvalidArgument]
                 ELSE LET r == SetLimit(opts, Atoi(args[i + 1]).n, Atoi(args[i + 2]).n)
                      IN  IF r.err # NoErr THEN [opts |-> opts, err |-> r.err]
                          ELSE ParseZRangeArgs(args, i + 3, r.opts)
            [] OTHER -> [opts |-> opts, err |-> ErrUnknownOption]

\* createCommand for ZRANGE key start stop args...: the ZRangeCommand, or
\* the error that ends the parse
CreateZRange(start, stop, args) ==
    LET parsed == ParseZRangeArgs(args, 1, NewZRangeOptions)
        opts == parsed.opts
        failed(err) == [err |-> err, cmd |-> NoPCall.cmd]
        built(a, b) == [err |-> NoErr, cmd |-> [Start |-> a, Stop |-> b, Options |-> opts]]
    IN  IF parsed.err # NoErr THEN failed(parsed.err)
        ELSE IF IsByScore(opts)
        THEN IF ~ParseFloat(start).ok \/ ~ParseFloat(stop).ok
             THEN failed(ErrInvalidArgument)
             ELSE built(FloatArg(ParseFloat(start).n), FloatArg(ParseFloat(stop).n))
        ELSE IF IsByLex(opts)
        THEN built(StrArg(start), StrArg(stop))
        ELSE IF ~Atoi(start).ok \/ ~Atoi(stop).ok
             THEN failed(ErrInvalidArgument)
             ELSE built(IntArg(Atoi(start).n), IntArg(Atoi(stop).n))

\* One ZRANGE request goes through createCommand
ParseZRange(start, stop, args) ==
    /\ LET r == CreateZRange(start, stop, args)
       IN  pLast' = [op |-> "zrange", start |-> start, stop |-> stop, args |-> args,
                     err |-> r.err, cmd |-> r.cmd,
                     zadd |-> NoZAddCommand, panic |-> FALSE]
    /\ UNCHANGED notP

\* The argument lists of the requests
ZRangeArgLists == UNION {[1..k -> ZRangeTokens] : k \in 0..MaxOptionArgs}

\* ----------------------------------------------------- parsing of ZADD
\* The wrong number of words in a request
ErrArgCount == "ArgCount"

\* The option loop of createCommand for ZADD, from word i on: every word
\* that is an option name in upper case is handed to Set, and the first
\* other word ends the loop.  i is the word the loop stopped at
RECURSIVE ZAddOptionLoop(_, _, _)
ZAddOptionLoop(args, i, active) ==
    IF i > Len(args) THEN [i |-> i, active |-> active, err |-> NoErr]
    ELSE LET opt == ToUpper(args[i])
         IN  IF opt \in {"NX", "XX", "GT", "LT", "CH", "INCR"}
             THEN LET r == OptionsSet(ZAddRegistry, active, opt)
                  IN  IF r.err # NoErr THEN [i |-> i, active |-> active, err |-> r.err]
                      ELSE ZAddOptionLoop(args, i + 1, r.active)
             ELSE [i |-> i, active |-> active, err |-> NoErr]

\* The loop over the score-member pairs from word i on: the score is parsed
\* and the word after it is the member; to read the word after the last
\* one is an index out of range, which panics
RECURSIVE ZAddPairLoop(_, _, _)
ZAddPairLoop(args, i, members) ==
    IF i > Len(args) THEN [members |-> members, err |-> NoErr, panic |-> FALSE]
    ELSE IF ~ParseFloat(args[i]).ok
    THEN [members |-> members, err |-> ErrInvalidArgument, panic |-> FALSE]
    ELSE IF i + 1 > Len(args)
    THEN [members |-> members, err |-> NoErr, panic |-> TRUE]
    ELSE ZAddPairLoop(args, i + 2,
                      Append(members, ScoreMember(ParseFloat(args[i]).n, args[i + 1])))

\* createCommand for a request whose first word is ZADD (args[1] here, so
\* the key the command gets, the word after ZADD, is args[2]): the options
\* are looked for from the word after ZADD on, the word the option loop
\* stopped at is skipped as the key, and the pairs follow it
CreateZAdd(args) ==
    LET failed(err) == [err |-> err, panic |-> FALSE, cmd |-> NoZAddCommand]
        options == ZAddOptionLoop(args, 2, {})
        pairs == ZAddPairLoop(args, options.i + 1, <<>>)
    IN  IF Len(args) < 4 \/ (Len(args) - 2) % 2 # 0 THEN failed(ErrArgCount)
        ELSE IF options.err # NoErr THEN failed(options.err)
        ELSE IF pairs.panic THEN [err |-> NoErr, panic |-> TRUE, cmd |-> NoZAddCommand]
        ELSE IF pairs.err # NoErr THEN failed(pairs.err)
        ELSE [err |-> NoErr, panic |-> FALSE,
              cmd |-> [Key |-> args[2], Members |-> pairs.members,
                       Options |-> MkOpts(FALSE, options.active, NoExpiry)]]

\* One ZADD request goes through createCommand
ParseZAdd(args) ==
    /\ LET r == CreateZAdd(args)
       IN  pLast' = [op |-> "zadd", start |-> "", stop |-> "", args |-> args,
                     err |-> r.err, cmd |-> NoPCall.cmd,
                     zadd |-> r.cmd, panic |-> r.panic]
    /\ UNCHANGED notP

\* The words of the ZADD requests after the first: option names, a key, a
\* score and a member
ZAddTokens == {"NX", "nx", "GT", "CH", "INCR", "k1", "1", "a"}
ZAddArgLists == {<<"ZADD">> \o w : w \in UNION {[1..k -> ZAddTokens] : k \in 0..MaxZAddWords}}

\* createCommand keeps no state, so a behaviour is one request
NextP ==
    /\ pLast.op = "none"
    /\ \/ \E start \in RangeEnds, stop \in RangeEnds, args \in ZRangeArgLists :
             ParseZRange(start, stop, args)
       \/ \E args \in ZAddArgLists : ParseZAdd(args)

SpecP == Init /\ [][NextP]_vars

\* ------------------------------------------------------ concurrent calls
\* The lock each operation of MemoryStore takes on entry
LockKind_GetShares(op) ==
    IF op \in {"get", "ttl", "keys", "zrange"} THEN "RLock" ELSE "Lock"

LockKind(op) ==
    IF op \in {"ttl", "keys", "zrange"} THEN "RLock" ELSE "Lock"

\* sync.RWMutex: Lock first takes the writers' mutex w and announces the
\* writer to the readers, then waits until the readers that are inside
\* have left.  RLock returns at once unless a writer holds w: a writer
\* that still waits for w keeps no reader out
CanLock(m) == m.w = "none"
CanRLock(m) == m.w = "none"
Drained(m) == m.readers = {}

\* Unlock and RUnlock
Release_KeepsWriter(m, p) == [m EXCEPT !.readers = @ \ {p}]

\* Unlock lets every reader in that was blocked behind the writer, and
\* releases w after that
Release(m, p) ==
    IF m.writer = p
    THEN [m EXCEPT !.w = "none", !.writer = "none",
                   !.readers = m.blocked, !.blocked = {}]
    ELSE [m EXCEPT !.readers = @ \ {p}]

\* The key a goroutine writes; it reads every key
Home(p) == IF p = "p1" THEN "k1" ELSE "k2"

\* The option objects of the concurrent SETs: none, or PX 1 on the key
\* that gets expiries
ConcurrentSetOptions(key, t) ==
    {NilOpts} \cup
    (IF key \in OptKeys THEN {MkOpts(FALSE, {}, SetExpiry(NoExpiry, "PX", 1, t))} ELSE {})

\* The first statement of a method body, by operation
FirstStatement(op) ==
    CASE op = "get" -> "check"
      [] op = "set" -> "store"
      [] op = "del" -> "delData"
      [] op = "expire" -> "xCheck"
      [] op = "zadd" -> "zLookup"
      [] OTHER -> "ttl"

\* A goroutine calls a method of the store and reaches the lock
CCallWith(p, op, key, value, opts, ttl) ==
    /\ procs[p].pc = "idle"
    /\ procs' = [procs EXCEPT ![p] = [pc |-> "lock", op |-> op, key |-> key,
                                      value |-> value, opts |-> opts,
                                      expired |-> FALSE, result |-> Nil,
                                      seconds |-> 0, ttl |-> ttl,
                                      err |-> NoErr]]
    /\ UNCHANGED <<mu, data, expires, now, plain, written, zHeap, notC>>

\* A goroutine calls Get, Set, Del or TTL
CCall(p, op, key, value, opts) == CCallWith(p, op, key, value, opts, 0)

\* s.mu.Lock(): the writer gets w and announces itself; Lock returns when
\* no reader is inside, else the writer waits for the readers to leave.
\* s.mu.RLock(): the reader is counted; RLock returns when no writer holds
\* w, else the reader is blocked until that writer's Unlock
CAcquire(p) ==
    /\ procs[p].pc = "lock"
    /\ IF LockKind(procs[p].op) = "Lock"
       THEN /\ CanLock(mu)
            /\ mu' = [mu EXCEPT !.w = p, !.writer = IF Drained(mu) THEN p ELSE @]
            /\ procs' = [procs EXCEPT ![p].pc = IF Drained(mu)
                                                THEN FirstStatement(procs[p].op)
                                                ELSE "drain"]
       ELSE /\ mu' = IF CanRLock(mu)
                     THEN [mu EXCEPT !.readers = @ \cup {p}]
                     ELSE [mu EXCEPT !.blocked = @ \cup {p}]
            /\ procs' = [procs EXCEPT ![p].pc = IF CanRLock(mu)
                                                THEN FirstStatement(procs[p].op)
                                                ELSE "blocked"]
    /\ UNCHANGED <<data, expires, now, plain, written, zHeap, notC>>

\* s.mu.Lock() returns to the writer that waited for the readers
CDrained(p) ==
    /\ procs[p].pc = "drain"
    /\ Drained(mu)
    /\ mu' = [mu EXCEPT !.writer = p]
    /\ procs' = [procs EXCEPT ![p].pc = FirstStatement(procs[p].op)]
    /\ UNCHANGED <<data, expires, now, plain, written, zHeap, notC>>

\* Get: if s.isExpired(key)
CGetCheck(p) ==
    /\ procs[p].pc = "check"
    /\ LET expired == isExpired(expires, procs[p].key, now)
       IN  procs' = [procs EXCEPT ![p].expired = expired,
                                  ![p].pc = IF expired THEN "delData" ELSE "read"]
    /\ UNCHANGED <<mu, data, expires, now, plain, written, zHeap, notC>>

\* Get and Del: delete(s.data, key)
CDeleteData(p) ==
    /\ procs[p].pc = "delData"
    /\ data' = MapDelete(data, procs[p].key)
    /\ procs' = [procs EXCEPT ![p].pc = "delExpires"]
    /\ zHeap' = HeapCollect(data', zHeap)
    /\ UNCHANGED <<mu, expires, now, plain, written, notC>>

\* Get and Del: delete(s.expires, key), and the nil result
CDeleteExpires(p) ==
    /\ procs[p].pc = "delExpires"
    /\ expires' = MapDelete(expires, procs[p].key)
    /\ procs' = [procs EXCEPT ![p].pc = "return", ![p].result = Nil]
    /\ UNCHANGED <<mu, data, now, plain, written, zHeap, notC>>

\* Get: the read of s.data[key]
CGetRead(p) ==
    /\ procs[p].pc = "read"
    /\ procs' = [procs EXCEPT ![p].pc = "return",
                              ![p].result = IF procs[p].key \in DOMAIN data
                                            THEN data[procs[p].key] ELSE Nil]
    /\ UNCHANGED <<mu, data, expires, now, plain, written, zHeap, notC>>

\* Set: s.data[key] = value (no NX, no XX among the options)
CSetStore(p) ==
    /\ procs[p].pc = "store"
    /\ data' = MapPut(data, procs[p].key, procs[p].value)
    /\ procs' = [procs EXCEPT ![p].pc = "expiry"]
    /\ zHeap' = HeapCollect(data', zHeap)
    /\ UNCHANGED <<mu, expires, now, plain, written, notC>>

\* Set: the expiry branch
CSetExpiry(p) ==
    /\ procs[p].pc = "expiry"
    /\ expires' = SetExpires(expires, procs[p].key, procs[p].opts)
    /\ procs' = [procs EXCEPT ![p].pc = "return", ![p].result = Nil]
    /\ UNCHANGED <<mu, data, now, plain, written, zHeap, notC>>

\* TTL: the whole body, under the read lock
CTTL(p) ==
    /\ procs[p].pc = "ttl"
    /\ procs' = [procs EXCEPT ![p].pc = "return",
                              ![p].seconds = StoreTTL(data, expires, procs[p].key, now)]
    /\ UNCHANGED <<mu, data, expires, now, plain, written, zHeap, notC>>

\* Expire: the test of s.data[key] (opts is nil), and the branch on ttl
CExpireCheck(p) ==
    /\ procs[p].pc = "xCheck"
    /\ procs' = IF procs[p].key \notin DOMAIN data
                THEN [procs EXCEPT ![p].pc = "return", ![p].err = ErrNotFound]
                ELSE [procs EXCEPT ![p].pc = IF procs[p].ttl <= 0
                                             THEN "xDelExpires" ELSE "xStore"]
    /\ UNCHANGED <<mu, data, expires, now, plain, written, zHeap, notC>>

\* Expire with ttl <= 0: delete(s.expires, key)
CExpireDeleteExpires(p) ==
    /\ procs[p].pc = "xDelExpires"
    /\ expires' = MapDelete(expires, procs[p].key)
    /\ procs' = [procs EXCEPT ![p].pc = "xDelData"]
    /\ UNCHANGED <<mu, data, now, plain, written, zHeap, notC>>

\* Expire with ttl <= 0: delete(s.data, key)
CExpireDeleteData(p) ==
    /\ procs[p].pc = "xDelData"
    /\ data' = MapDelete(data, procs[p].key)
    /\ zHeap' = HeapCollect(data', zHeap)
    /\ procs' = [procs EXCEPT ![p].pc = "return"]
    /\ UNCHANGED <<mu, expires, now, plain, written, notC>>

\* Expire with ttl > 0: s.expires[key] = time.Now().Add(ttl)
CExpireStore(p) ==
    /\ procs[p].pc = "xStore"
    /\ expires' = MapPut(expires, procs[p].key, now + procs[p].ttl)
    /\ procs' = [procs EXCEPT ![p].pc = "return"]
    /\ UNCHANGED <<mu, data, now, plain, written, zHeap, notC>>

\* ZAdd: the lookup of s.data[key], the type assertion, and for an absent
\* key s.data[key] = &SortedSet{}
CZAddLookup(p) ==
    /\ procs[p].pc = "zLookup"
    /\ LET key == procs[p].key
       IN  IF key \in DOMAIN data
           THEN /\ procs' = IF data[key] \in ZPtrs
                            THEN [procs EXCEPT ![p].pc = "zAdd"]
                            ELSE [procs EXCEPT ![p].pc = "return",
                                               ![p].err = ErrWrongType]
                /\ UNCHANGED <<data, zHeap>>
           ELSE /\ data' = MapPut(data, key, ZPtr[key])
                /\ zHeap' = MapPut(zHeap, ZPtr[key], ZeroSortedSet)
                /\ procs' = [procs EXCEPT ![p].pc = "zAdd"]
    /\ UNCHANGED <<mu, expires, now, plain, written, notC>>

\* ZAdd with one pair and no options: zset.Add(member, score).  A panic
\* of Add leaves the method through its deferred Unlock.
CZAddAdd(p, member, score, level) ==
    /\ procs[p].pc = "zAdd"
    /\ LET ptr == data[procs[p].key]
           r == SortedSetAdd(zHeap[ptr], member, score, level)
       IN  /\ zHeap' = MapPut(zHeap, ptr, r.set)
           /\ procs' = [procs EXCEPT ![p].pc = IF r.panic THEN "unwind" ELSE "return"]
    /\ UNCHANGED <<mu, data, expires, now, plain, written, notC>>

\* What a call that is over has left at its key, for the history
WrittenBy(call) ==
    CASE call.op = "set" -> [written EXCEPT ![call.key] = call.value]
      [] call.op = "del" -> [written EXCEPT ![call.key] = Nil]
      [] call.op = "expire" /\ call.err = NoErr /\ call.ttl <= 0 ->
            [written EXCEPT ![call.key] = Nil]
      [] call.op = "zadd" /\ call.err = NoErr ->
            [written EXCEPT ![call.key] = ZPtr[call.key]]
      [] OTHER -> written

\* The keys on which more than get, del and set without an expiry option
\* has been called
PlainAfter(call) ==
    IF (call.op = "set" /\ ~call.opts.nil) \/ call.op \in {"ttl", "expire", "zadd"}
    THEN [plain EXCEPT ![call.key] = FALSE]
    ELSE plain

\* The goroutines after the Unlock or RUnlock of p: p is at pc, and the
\* readers an Unlock lets in go on with their bodies
AfterRelease(p, pc) ==
    [q \in Procs |->
        IF q = p THEN [procs[q] EXCEPT !.pc = pc]
        ELSE IF q \in Release(mu, p).readers \ mu.readers
        THEN [procs[q] EXCEPT !.pc = FirstStatement(procs[q].op)]
        ELSE procs[q]]

\* The return: the deferred Unlock or RUnlock runs and the call is over
CReturn(p) ==
    /\ procs[p].pc = "return"
    /\ mu' = Release(mu, p)
    /\ procs' = AfterRelease(p, "idle")
    /\ written' = WrittenBy(procs[p])
    /\ plain' = PlainAfter(procs[p])
    /\ UNCHANGED <<data, expires, now, zHeap, notC>>

\* The panic of Add unwinds ZAdd: the deferred Unlock runs, and the panic
\* goes on to the caller
CUnwind(p) ==
    /\ procs[p].pc = "unwind"
    /\ mu' = Release(mu, p)
    /\ procs' = AfterRelease(p, "panicking")
    /\ written' = WrittenBy(procs[p])
    /\ plain' = PlainAfter(procs[p])
    /\ UNCHANGED <<data, expires, now, zHeap, notC>>

\* No caller recovers the panic: the runtime ends the process and with it
\* every goroutine
CCrash(p) ==
    /\ procs[p].pc = "panicking"
    /\ procs' = [q \in Procs |-> [procs[q] EXCEPT !.pc = "crashed"]]
    /\ UNCHANGED <<mu, data, expires, now, plain, written, zHeap, notC>>

\* Time passes
CTick ==
    /\ now < MaxTime
    /\ now' = now + 1
    /\ UNCHANGED <<mu, procs, data, expires, plain, written, zHeap, notC>>

\* The steps of a call that has been made
CStep(p) ==
    \/ CAcquire(p)
    \/ CDrained(p)
    \/ CGetCheck(p)
    \/ CDeleteData(p)
    \/ CDeleteExpires(p)
    \/ CGetRead(p)
    \/ CSetStore(p)
    \/ CSetExpiry(p)
    \/ CTTL(p)
    \/ CReturn(p)

NextC ==
    \/ \E p \in Procs, key \in Keys : CCall(p, "get", key, Nil, NilOpts)
    \/ \E p \in Procs, key \in OptKeys : CCall(p, "ttl", key, Nil, NilOpts)
    \/ \E p \in Procs, value \in Values :
          \E opts \in ConcurrentSetOptions(Home(p), now) :
             CCall(p, "set", Home(p), value, opts)
    \/ \E p \in Procs : CCall(p, "del", Home(p), Nil, NilOpts)
    \/ \E p \in Procs : CStep(p)
    \/ CTick

SpecC == Init /\ [][NextC]_vars

\* The steps of an Expire or a ZAdd that has been made
CStepM(p) ==
    \/ CExpireCheck(p)
    \/ CExpireDeleteExpires(p)
    \/ CExpireDeleteData(p)
    \/ CExpireStore(p)
    \/ CZAddLookup(p)
    \/ CZAddAdd(p, "a", 1, 1)
    \/ CUnwind(p)
    \/ CCrash(p)

\* The store called by two goroutines with every method that writes:
\* Expire (on the key that gets expiries) and ZAdd next to Get, Set and Del
NextCM ==
    \/ NextC
    \/ \E p \in Procs, key \in OptKeys, seconds \in {0, MaxTTLSeconds} :
          CCallWith(p, "expire", key, Nil, NilOpts, seconds * TicksPerSecond)
    \/ \E p \in Procs : CCallWith(p, "zadd", Home(p), Nil, NilOpts, 0)
    \/ \E p \in Procs : CStepM(p)

SpecCM == Init /\ [][NextCM]_vars

\* Every goroutine that can take a step of its call takes one; the runtime
\* hands the lock to a goroutine that keeps waiting for it (sync.Mutex
\* gives a starved waiter the lock next)
FairSpecC ==
    /\ Init /\ [][NextC]_vars
    /\ \A p \in Procs : WF_vars(CStep(p)) /\ SF_vars(CAcquire(p))

\* ------------------------------------------------------ pattern matcher
\* The sequences over S of up to n elements
SeqsUpTo(S, n) == UNION {[1..k -> S] : k \in 0..n}

\* The strings matched: letters, and a character that is special in a
\* pattern
StrChars == Letters \cup {"*"}

\* One call matchPattern(str, pattern)
MatchPatternCall(str, pattern) ==
    /\ gLast' = [op |-> "match", str |-> str, pattern |-> pattern,
                 matched |-> matchPattern(str, pattern)]
    /\ UNCHANGED notG

\* The function keeps no state, so a behaviour is one call
NextG ==
    /\ gLast.op = "none"
    /\ \E str \in SeqsUpTo(StrChars, MaxStrLen), pattern \in SeqsUpTo(GlobChars, MaxPatternLen) :
          MatchPatternCall(str, pattern)

SpecG == Init /\ [][NextG]_vars

\* ------------------------------------------------ server and connections
\* The requests a client sends: commands the engine answers, three
\* well-framed requests createCommand rejects, a ZADD whose last score has
\* no member, and bytes that are not a RESP array
Request(words) == [frame |-> "array", words |-> words]
Malformed == [frame |-> "other", words |-> <<>>]
Requests ==
    {Request(words) : words \in
        {<<"SET", "k1", "v1">>, <<"GET", "k1">>, <<"ZADD", "k1", "1", "a">>,
         <<"ZADD", "XX", "XX", "k1", "1", "a">>, <<"ZADD", "NX", "k1", "1", "a", "1">>,
         <<"FOO">>, <<"GET", "k1", "k2">>, <<"SET", "k1", "v1", "NX", "XX">>}}
    \cup {Malformed}

ErrUnknownCommand == "UnknownCommand"

\* The words createCommand knows as commands
CommandNames ==
    {"SET", "GET", "DEL", "EXPIRE", "TTL", "KEYS", "ZADD", "ZRANGE", "COMMAND"}

\* The option loop of createCommand for SET, from word i on, at instant t
RECURSIVE SetOptionLoop(_, _, _, _)
SetOptionLoop(args, i, opts, t) ==
    IF i > Len(args) THEN [opts |-> opts, err |-> NoErr]
    ELSE
      LET opt == ToUpper(args[i])
          expiry(exp) == [opts EXCEPT !.ExpiryType = exp.ExpiryType,
                                      !.ExpiryTime = exp.ExpiryTime]
      IN  CASE opt \in {"NX", "XX", "GET"} ->
                 LET r == OptionsSet(SetRegistry, opts.active, opt)
                 IN  IF r.err # NoErr THEN [opts |-> opts, err |-> r.err]
                     ELSE SetOptionLoop(args, i + 1, [opts EXCEPT !.active = r.active], t)
            [] opt = "KEEPTTL" ->
                 LET r == SetExpiry(opts, opt, 0, t)
                 IN  IF r.err # NoErr THEN [opts |-> opts, err |-> r.err]
                     ELSE SetOptionLoop(args, i + 1, expiry(r), t)
            [] opt \in {"EX", "PX", "EXAT", "PXAT"} ->
                 IF i + 1 > Len(args) THEN [opts |-> opts, err |-> ErrSyntax]
                 ELSE IF ~Atoi(args[i + 1]).ok
                 THEN [opts |-> opts, err |-> ErrInvalidArgument]
                 ELSE LET r == SetExpiry(opts, opt, Atoi(args[i + 1]).n, t)
                      IN  IF r.err # NoErr THEN [opts |-> opts, err |-> r.err]
                          ELSE SetOptionLoop(args, i + 2, expiry(r), t)
            [] OTHER -> [opts |-> opts, err |-> ErrUnknownOption]

\* The ZAddCommand createCommand returns, as a command of the handler
ZAddCommand(r) ==
    IF r.err # NoErr \/ r.panic
    THEN [err |-> r.err, panic |-> r.panic, cmd |-> NoCommand]
    ELSE [err |-> NoErr, panic |-> FALSE,
          cmd |-> [NoCommand EXCEPT !.name = "ZADD", !.Key = r.cmd.Key,
                                    !.Members = r.cmd.Members,
                                    !.Options = r.cmd.Options]]

\* createCommand at instant t on the words of a request, for the commands
\* the clients send: SET, GET and ZADD, and a first word that names no
\* command
CreateCommand(args, t) ==
    LET cmd == ToUpper(args[1])
        failed(err) == [err |-> err, panic |-> FALSE, cmd |-> NoCommand]
        built(command) == [err |-> NoErr, panic |-> FALSE, cmd |-> command]
    IN  CASE cmd = "SET" ->
               IF Len(args) < 3 THEN failed(ErrArgCount)
               ELSE LET o == SetOptionLoop(args, 4, EmptyOpts, t)
                    IN  IF o.err # NoErr THEN failed(o.err)
                        ELSE built([NoCommand EXCEPT !.name = "SET", !.Key = args[2],
                                                     !.Value = args[3], !.Options = o.opts])
          [] cmd = "GET" ->
               IF Len(args) # 2 THEN failed(ErrArgCount)
               ELSE built([NoCommand EXCEPT !.name = "GET", !.Key = args[2]])
          [] cmd = "ZADD" -> ZAddCommand(CreateZAdd(args))
          [] cmd \notin CommandNames -> failed(ErrUnknownCommand)

\* Parser.Parse at instant t on a request: anything but an array of at
\* least one word is an error, and the words go to createCommand
Parse(request, t) ==
    IF request.frame # "array" \/ Len(request.words) < 1
    THEN [err |-> ErrSyntax, panic |-> FALSE, cmd |-> NoCommand]
    ELSE CreateCommand(request.words, t)

\* Writer.WriteInterface on what Get and Set return: nil is written as the
\* null bulk string, a string as a bulk string
WriteInterface(result) ==
    IF result = Nil THEN Reply("null", "", 0) ELSE Reply("bulk", result, 0)

\* fmt.Sprintf("%v", n) for the float64 an INCR returns
FormatFloat(n) ==
    CASE n = 0 -> "0" [] n = 1 -> "1" [] n = 2 -> "2" [] n = 3 -> "3"
      [] n = 4 -> "4" [] n = 5 -> "5" [] n = 6 -> "6"

\* Handle after command.Execute: an error is written by writeError, the
\* response by writeResponse
Answer(err, reply) == IF err # NoErr THEN Reply("error", err, 0) ELSE reply

\* SetCommand.Execute and GetCommand.Execute hand on what the store returned
StringOutcome(r, heap) ==
    [data |-> r.data, expires |-> r.expires, heap |-> heap, panic |-> FALSE,
     reply |-> Answer(r.err, WriteInterface(r.result))]

\* ZAddCommand.Execute hands on what the store returned: an int, the
\* float64 of INCR, or nil
ZAddOutcome(r, e) ==
    [data |-> r.data, expires |-> e, heap |-> r.heap, panic |-> r.panic,
     reply |-> Answer(r.err,
                      CASE r.kind = "int" -> Reply("int", "", r.n)
                        [] r.kind = "float64" -> Reply("bulk", FormatFloat(r.n), 0)
                        [] OTHER -> Reply("null", "", 0))]

\* command.Execute on the store at instant t, and the reply Handle writes
\* for what it returned
Execute(cmd, d, e, heap, t, levels) ==
    CASE cmd.name = "SET" ->
           StringOutcome(StoreSet(d, e, cmd.Key, cmd.Value, cmd.Options), heap)
      [] cmd.name = "GET" ->
           StringOutcome(StoreGet(d, e, cmd.Key, t), heap)
      [] cmd.name = "ZADD" ->
           ZAddOutcome(StoreZAdd(d, heap, cmd.Key, cmd.Members, cmd.Options, levels), e)

\* The process is running: main has not returned, log.Fatalf has not been
\* called and the runtime has not ended it after a panic
Running == srv.process = "running"

\* The end of the process, by the return of main, log.Fatalf or the
\* runtime after a panic: the kernel closes the listening socket and every
\* connection, queued or accepted, and the goroutines are gone
Ended(how) ==
    [srv EXCEPT !.process = how, !.listener = IF @ = "open" THEN "closed" ELSE @]
Dropped ==
    [x \in Conns |->
        [conns[x] EXCEPT !.client = IF @ \in {"dialing", "open"} THEN "closed" ELSE @,
                         !.handler = IF @ = "panicking" THEN "exited" ELSE @]]

\* Server.Start up to the return of net.Listen.  When Listen fails Start
\* returns the error and main calls log.Fatalf, which ends the process
StartListen(listens) ==
    /\ Running
    /\ srv.start = "idle"
    /\ IF listens
       THEN /\ srv' = [srv EXCEPT !.start = "listening", !.listener = "open"]
            /\ UNCHANGED conns
       ELSE /\ srv' = [Ended("exited") EXCEPT !.start = "failed"]
            /\ conns' = Dropped
    /\ UNCHANGED notSrv

\* Server.Start after Listen: count the accept loop in the wait group and
\* start it
StartSpawn ==
    /\ Running
    /\ srv.start = "listening"
    /\ srv' = [srv EXCEPT !.start = "done", !.wg = @ + 1, !.accept = "select"]
    /\ UNCHANGED <<conns, notSrv>>

\* A client dials; the connection waits in the listener's backlog
ClientDial(c) ==
    /\ Running
    /\ srv.listener = "open"
    /\ conns[c].client = "none"
    /\ conns' = [conns EXCEPT ![c].client = "dialing"]
    /\ UNCHANGED <<srv, notSrv>>

\* acceptConnections, the outer select: return when quit is closed, else
\* call Accept
AcceptSelect ==
    /\ Running
    /\ srv.accept = "select"
    /\ srv' = IF srv.quit = "closed"
              THEN [srv EXCEPT !.accept = "done", !.wg = @ - 1]
              ELSE [srv EXCEPT !.accept = "accept"]
    /\ UNCHANGED <<conns, notSrv>>

\* Accept returns a connection: count it and start its handler, which
\* calls Parse
AcceptConn(c) ==
    /\ Running
    /\ srv.accept = "accept"
    /\ srv.listener = "open"
    /\ conns[c].client = "dialing"
    /\ srv' = [srv EXCEPT !.accept = "select", !.wg = @ + 1]
    /\ conns' = [conns EXCEPT ![c].client = "open", ![c].handler = "parse"]
    /\ UNCHANGED notSrv

\* Accept fails on the closed listener: return when quit is closed, else
\* log and go round
AcceptError ==
    /\ Running
    /\ srv.accept = "accept"
    /\ srv.listener = "closed"
    /\ srv' = IF srv.quit = "closed"
              THEN [srv EXCEPT !.accept = "done", !.wg = @ - 1]
              ELSE [srv EXCEPT !.accept = "select"]
    /\ UNCHANGED <<conns, notSrv>>

\* The number of requests the clients of S have written
RECURSIVE Sent(_)
Sent(S) ==
    IF S = {} THEN 0
    ELSE LET c == CHOOSE x \in S : TRUE IN conns[c].sent + Sent(S \ {c})

\* The client writes one request
ClientSend(c, req) ==
    /\ Running
    /\ conns[c].client = "open"
    /\ conns[c].wire = NoRequest
    /\ Sent(Conns) < MaxRequests
    /\ conns' = [conns EXCEPT ![c].wire = req, ![c].sent = @ + 1]
    /\ UNCHANGED <<srv, notSrv>>

\* The client closes its end
ClientClose(c) ==
    /\ Running
    /\ conns[c].client = "open"
    /\ conns' = [conns EXCEPT ![c].client = "closed"]
    /\ UNCHANGED <<srv, notSrv>>

\* handleConnection after Handle returned: conn.Close() and wg.Done()
HandlerExit(c, req, cause) ==
    /\ conns' = [conns EXCEPT ![c].handler = "exited", ![c].client = "closed",
                              ![c].wire = NoRequest, ![c].cur = NoRequest,
                              ![c].cmd = NoCommand, ![c].reply = NoReply,
                              ![c].lastReq = req, ![c].lastReply = NoReply,
                              ![c].cause = cause]
    /\ srv' = [srv EXCEPT !.wg = @ - 1]

\* A panic in the goroutine of connection c: nothing recovers it.  While
\* it unwinds, the deferred function of handleConnection runs, conn.Close()
\* and wg.Done(); the runtime then ends the process (Crash), and until it
\* does the other goroutines go on
Panic(c, req) ==
    /\ conns' = [conns EXCEPT ![c].handler = "panicking", ![c].client = "closed",
                              ![c].wire = NoRequest, ![c].cur = NoRequest,
                              ![c].cmd = NoCommand, ![c].reply = NoReply,
                              ![c].lastReq = req, ![c].lastReply = NoReply,
                              ![c].cause = "panic"]
    /\ srv' = [srv EXCEPT !.wg = @ - 1]

\* The runtime ends the process after the panic of c's goroutine has run
\* its deferred calls
Crash(c) ==
    /\ Running
    /\ conns[c].handler = "panicking"
    /\ srv' = Ended("crashed")
    /\ conns' = Dropped
    /\ UNCHANGED notSrv

\* Handle after Parse returned r for request req: an error ends Handle, a
\* panic unwinds the goroutine, a command goes on to Execute
Parsed(c, req, r) ==
    IF r.panic THEN Panic(c, req)
    ELSE IF r.err # NoErr THEN HandlerExit(c, req, "parse")
    ELSE /\ conns' = [conns EXCEPT ![c].handler = "execute", ![c].wire = NoRequest,
                                   ![c].cur = req, ![c].cmd = r.cmd]
         /\ UNCHANGED srv

\* Handler.Handle, the call of Parse when a request has come in
HandleParse(c) ==
    /\ Running
    /\ conns[c].handler = "parse"
    /\ conns[c].wire # NoRequest
    /\ Parsed(c, conns[c].wire, Parse(conns[c].wire, now))
    /\ UNCHANGED notSrv

\* Parse reads end of file: the client has closed and nothing is on the wire
HandleEOF(c) ==
    /\ Running
    /\ conns[c].handler = "parse"
    /\ conns[c].wire = NoRequest
    /\ conns[c].client = "closed"
    /\ HandlerExit(c, NoRequest, "transport")
    /\ UNCHANGED notSrv

\* The levels randomLevel() returns to the Add calls of a command
CommandLevels(cmd) ==
    IF cmd.name = "ZADD" THEN ZAddLevels(cmd.Key, Len(cmd.Members)) ELSE {<<>>}

\* Handle after command.Execute left r: the store holds what the command
\* wrote and is unlocked.  A panic of the store is then on its way up to
\* handleConnection, whose deferred function has not run yet
Executed(c, r) ==
    /\ data' = r.data
    /\ expires' = r.expires
    /\ zHeap' = HeapCollect(r.data, r.heap)
    /\ conns' = IF r.panic
                THEN [conns EXCEPT ![c].handler = "unwinding"]
                ELSE [conns EXCEPT ![c].handler = "write", ![c].reply = r.reply]
    /\ UNCHANGED srv

\* Handler.Handle, the call of command.Execute: the store runs the command
\* under its lock
HandleExecute(c, levels) ==
    /\ Running
    /\ conns[c].handler = "execute"
    /\ Executed(c, Execute(conns[c].cmd, data, expires, zHeap, now, levels))
    /\ UNCHANGED <<now, last, lastWrite, plain, armed, delRun, zLast, zAdded,
                   ssVars, oVars, gVars, cVars, pVars>>

\* The panic of the store reaches handleConnection: its deferred function
\* runs, conn.Close() and wg.Done()
HandleUnwind(c) ==
    /\ Running
    /\ conns[c].handler = "unwinding"
    /\ Panic(c, conns[c].cur)
    /\ UNCHANGED notSrv

\* Handler.Handle, writeResponse or writeError, and round the loop to
\* Parse.  writes tells whether the write to the client succeeds; it can
\* fail only when the client has closed its end, and then Handle returns
HandleWrite(c, writes) ==
    /\ Running
    /\ conns[c].handler = "write"
    /\ writes \/ conns[c].client = "closed"
    /\ IF writes
       THEN /\ conns' = [conns EXCEPT ![c].handler = "parse",
                                      ![c].lastReq = conns[c].cur,
                                      ![c].lastReply = conns[c].reply,
                                      ![c].cur = NoRequest, ![c].cmd = NoCommand,
                                      ![c].reply = NoReply]
            /\ UNCHANGED srv
       ELSE HandlerExit(c, conns[c].cur, "transport")
    /\ UNCHANGED notSrv

\* Server.Stop, first statement: close(s.quit)
StopCloseQuit ==
    /\ Running
    /\ srv.stop = "idle"
    /\ srv' = [srv EXCEPT !.stop = "quitClosed", !.quit = "closed"]
    /\ UNCHANGED <<conns, notSrv>>

\* Server.Stop: close the listener if there is one; the connections in its
\* backlog are dropped
StopCloseListener ==
    /\ Running
    /\ srv.stop = "quitClosed"
    /\ srv' = [srv EXCEPT !.stop = "waiting",
                          !.listener = IF @ = "none" THEN "none" ELSE "closed"]
    /\ conns' = [c \in Conns |->
                    IF conns[c].client = "dialing" /\ srv.listener # "none"
                    THEN [conns[c] EXCEPT !.client = "closed"]
                    ELSE conns[c]]
    /\ UNCHANGED notSrv

\* Server.Stop: s.wg.Wait() returns when the counter is zero
StopReturn ==
    /\ Running
    /\ srv.stop = "waiting"
    /\ srv.wg = 0
    /\ srv' = [srv EXCEPT !.stop = "returned"]
    /\ UNCHANGED <<conns, notSrv>>

\* main returns after Stop has returned, and the process is over
MainExit ==
    /\ Running
    /\ srv.stop = "returned"
    /\ srv' = Ended("exited")
    /\ conns' = Dropped
    /\ UNCHANGED notSrv

\* The steps of the server's goroutines
ServerStep ==
    \/ \E listens \in BOOLEAN : StartListen(listens)
    \/ StartSpawn
    \/ AcceptSelect
    \/ \E c \in Conns : AcceptConn(c)
    \/ AcceptError
    \/ \E c \in Conns : HandleParse(c)
    \/ \E c \in Conns : HandleEOF(c)
    \/ \E c \in Conns : \E levels \in CommandLevels(conns[c].cmd) : HandleExecute(c, levels)
    \/ \E c \in Conns, writes \in BOOLEAN : HandleWrite(c, writes)
    \/ \E c \in Conns : HandleUnwind(c)
    \/ \E c \in Conns : Crash(c)
    \/ StopCloseListener
    \/ StopReturn
    \/ MainExit

\* The steps of the clients and the termination signal
EnvironmentStep ==
    \/ \E c \in Conns : ClientDial(c)
    \/ \E c \in Conns, req \in Requests : ClientSend(c, req)
    \/ \E c \in Conns : ClientClose(c)
    \/ StopCloseQuit

NextSrv == ServerStep \/ EnvironmentStep

SpecSrv == Init /\ [][NextSrv]_vars

\* The goroutines of the server are scheduled; the clients and the signal
\* are not obliged to do anything
FairSpecSrv == Init /\ [][NextSrv]_vars /\ WF_vars(ServerStep)

\* The maps hold what the code can put into them
TypeOK ==
    /\ DOMAIN data \subseteq Keys
    /\ \A k \in DOMAIN data : data[k] \in Values
    /\ DOMAIN expires \subseteq Keys
    /\ \A k \in DOMAIN expires : expires[k] \in Int
    /\ now \in 0..MaxTime

\* ------------------------------------------------------------ properties
\* What a map holds for a key, Nil when it has no entry
Lookup(m, key) == IF key \in DOMAIN m THEN m[key] ELSE Nil

\* Two maps agree on a key: both have the entry with the same content or
\* neither has it
SameEntry(m1, m2, key) ==
    /\ (key \in DOMAIN m1) <=> (key \in DOMAIN m2)
    /\ key \in DOMAIN m1 => m1[key] = m2[key]

\* The key has an expiry that has not passed at instant t
HasUnexpiredExpiry(e, key, t) == key \in DOMAIN e /\ t <= e[key]

\* The keys named by a DEL
KeysOf(keys) == {keys[i] : i \in 1..Len(keys)}

\* C1: on a key that only get, del and set without an expiry option have
\* been called on, every get returns the value of the most recent successful
\* set that no del followed, and absence if there is none.
C1_GetReturnsLastWrite ==
    (last.op = "get" /\ plain[last.key]) =>
        /\ last.err = NoErr
        /\ last.result = lastWrite[last.key]

\* A get on a key with plain history returned a stored value
C1_Witness ==
    /\ last.op = "get"
    /\ plain[last.key]
    /\ last.result = "v2"
    /\ last.key \in OptKeys

\* C2: set with NX on a key that exists returns PreconditionFailed and
\* leaves value and expiry of the key unchanged; set with XX on an absent
\* key returns an error and leaves the key without value and expiry.
C2_GuardRejectsAndKeeps ==
    (last.op = "set" /\ ~last.opts.nil) =>
        /\ (IsNX(last.opts) /\ last.key \in DOMAIN last.preData) =>
              /\ last.err = ErrPreconditionFailed
              /\ SameEntry(data, last.preData, last.key)
              /\ SameEntry(expires, last.preExpires, last.key)
        /\ (IsXX(last.opts) /\ last.key \notin DOMAIN last.preData) =>
              /\ last.err # NoErr
              /\ last.key \notin DOMAIN data
              /\ last.key \notin DOMAIN expires

\* A set with NX was called on a key that had a value and an expiry
C2_Witness ==
    /\ last.op = "set"
    /\ IsNX(last.opts)
    /\ last.key \in DOMAIN last.preData
    /\ last.key \in DOMAIN last.preExpires
    /\ last.value # last.preData[last.key]

\* C3: after a successful set, with KEEPTTL the expiry of the key is what
\* it was before (the same instant, or none); with EX, PX, EXAT or PXAT it
\* is the instant the option carries; with no expiry option or no options
\* the key has no expiry.
C3_ExpiryPolicy ==
    (last.op = "set" /\ last.err = NoErr) =>
        IF ~last.opts.nil /\ last.opts.ExpiryType = "KEEPTTL"
        THEN SameEntry(expires, last.preExpires, last.key)
        ELSE IF ~last.opts.nil /\ last.opts.ExpiryType \in {"EX", "PX", "EXAT", "PXAT"}
        THEN /\ last.key \in DOMAIN expires
             /\ expires[last.key] = last.opts.ExpiryTime
        ELSE last.key \notin DOMAIN expires

\* A set with KEEPTTL succeeded on a key that had an expiry
C3_Witness ==
    /\ last.op = "set"
    /\ last.err = NoErr
    /\ last.opts.ExpiryType = "KEEPTTL"
    /\ last.key \in DOMAIN last.preExpires

\* C4: set with GET returns the value the key held before the call, or
\* absence, in every case, also when an NX or XX guard rejects the write.
C4_GetOptionReturnsOldValue ==
    (last.op = "set" /\ ~last.opts.nil /\ IsGET(last.opts)) =>
        last.result = Lookup(last.preData, last.key)

\* C5: del removes value and expiry of every given key, never errors, and
\* returns the number of given keys that existed before the call.
C5_DelCountsExistingKeys ==
    last.op = "del" =>
        /\ last.err = NoErr
        /\ \A k \in KeysOf(last.keys) : k \notin DOMAIN data /\ k \notin DOMAIN expires
        /\ last.n = Cardinality(KeysOf(last.keys) \cap DOMAIN last.preData)

\* C6: expire on an absent key returns NotFound.  On an existing key it
\* succeeds exactly when NX is set and the key has no unexpired expiry, XX is
\* set and it has one, GT is set and none exists or ttl is greater than the
\* remaining ttl, LT is set and none exists or ttl is less than the
\* remaining ttl, or no option is set.  On success with ttl > 0 the expiry
\* becomes now + ttl; on failure value and expiry are unchanged.
C6_ExpireGuards ==
    last.op = "expire" =>
        LET key == last.key
            o == last.opts
            has == HasUnexpiredExpiry(last.preExpires, key, last.at)
            remaining == last.preExpires[key] - last.at
            none == o.nil \/ o.active = {}
            succeeds == \/ ~o.nil /\ IsNX(o) /\ ~has
                        \/ ~o.nil /\ IsXX(o) /\ has
                        \/ ~o.nil /\ IsGT(o) /\ (~has \/ last.ttl > remaining)
                        \/ ~o.nil /\ IsLT(o) /\ (~has \/ last.ttl < remaining)
                        \/ none
        IN  /\ key \notin DOMAIN last.preData => last.err = ErrNotFound
            /\ key \in DOMAIN last.preData => ((last.err = NoErr) <=> succeeds)
            /\ (last.err = NoErr /\ last.ttl > 0) =>
                  /\ key \in DOMAIN expires
                  /\ expires[key] = last.at + last.ttl
            /\ last.err # NoErr => (data = last.preData /\ expires = last.preExpires)

\* An expire with GT and ttl <= 0 was rejected on a key with an expiry
C6_Witness ==
    /\ last.op = "expire"
    /\ IsGT(last.opts)
    /\ last.ttl <= 0
    /\ last.err = ErrPreconditionFailed
    /\ last.key \in DOMAIN expires

\* C7: expire with ttl <= 0 and no options on an existing key removes its
\* value and its expiry: a get that follows at once returns absence, ttl
\* returns -2 and keys("*") does not contain the key.
C7_ExpireNonPositiveDeletes ==
    (/\ last.op = "expire"
     /\ last.ttl <= 0
     /\ (last.opts.nil \/ last.opts.active = {})
     /\ last.key \in DOMAIN last.preData) =>
        /\ last.err = NoErr
        /\ last.key \notin DOMAIN data
        /\ last.key \notin DOMAIN expires
        /\ StoreGet(data, expires, last.key, now).result = Nil
        /\ StoreTTL(data, expires, last.key, now) = -2
        /\ last.key \notin StoreKeys(data, expires, "*", now)

\* An expire with ttl 0 and no options was called on a key that had a value
\* and an unexpired expiry, while another key was live
C7_Witness ==
    /\ last.op = "expire"
    /\ last.ttl = 0
    /\ last.opts.active = {}
    /\ last.key \in DOMAIN last.preData
    /\ HasUnexpiredExpiry(last.preExpires, last.key, last.at)
    /\ StoreKeys(data, expires, "*", now) # {}

\* C8: ttl returns -2 exactly at the instants at which get would return
\* absence (key absent or expired, the instant of the expiry included), -1
\* when the key exists with no expiry, and a non-negative number otherwise.
C8_TTLSentinels ==
    last.op = "ttl" =>
        LET absent == StoreGet(data, expires, last.key, now).result = Nil
        IN  /\ (last.n = -2) <=> absent
            /\ (last.n = -1) <=> (~absent /\ last.key \notin DOMAIN expires)
            /\ (~absent /\ last.key \in DOMAIN expires) => last.n >= 0

\* C9: a ttl call less than one second after a successful expire(key, ttl)
\* with a whole number of seconds ttl > 0 returns v with ttl - 1 < v <= ttl.
C9_TTLAfterExpire ==
    (/\ last.op = "ttl"
     /\ armed # NoArm
     /\ armed.key = last.key
     /\ now - armed.at < TicksPerSecond) =>
        /\ armed.ttl - TicksPerSecond < last.n * TicksPerSecond
        /\ last.n * TicksPerSecond <= armed.ttl

\* C10: get on a key whose expiry has passed removes the value entry and
\* the expiry entry of the key and returns absence; any other get changes
\* neither map and returns the stored value or absence; get never errors.
C10_GetLazyDelete ==
    last.op = "get" =>
        /\ last.err = NoErr
        /\ IF last.key \in DOMAIN last.preExpires /\ last.at > last.preExpires[last.key]
           THEN /\ last.key \notin DOMAIN data
                /\ last.key \notin DOMAIN expires
                /\ \A k \in Keys \ {last.key} :
                      SameEntry(data, last.preData, k) /\ SameEntry(expires, last.preExpires, k)
                /\ last.result = Nil
           ELSE /\ data = last.preData
                /\ expires = last.preExpires
                /\ last.result = Lookup(last.preData, last.key)

\* A get found the key with a value and a passed expiry
C10_Witness ==
    /\ last.op = "get"
    /\ last.key \in DOMAIN last.preData
    /\ last.key \in DOMAIN last.preExpires
    /\ last.at > last.preExpires[last.key]

\* Glob semantics for the patterns of Patterns: "*" matches every name and
\* a pattern without metacharacters matches the equal name only
GlobMatches(name, pattern) == pattern = "*" \/ pattern = name

\* C11: keys(pattern) returns exactly the keys that are present, not
\* expired at the time of the call and match the pattern, and it changes
\* neither the value map nor the expiry map.
C11_KeysExact ==
    last.op = "keys" =>
        /\ last.found =
              {k \in Keys :
                  /\ k \in DOMAIN last.preData
                  /\ ~(k \in DOMAIN last.preExpires /\ last.at > last.preExpires[k])
                  /\ GlobMatches(k, last.pattern)}
        /\ data = last.preData
        /\ expires = last.preExpires

\* keys("*") was called while one key was expired and not yet deleted and
\* another key was live
C11_Witness ==
    /\ last.op = "keys"
    /\ last.pattern = "*"
    /\ \E k \in DOMAIN data : k \in DOMAIN expires /\ now > expires[k]
    /\ last.found # {}

\* ------------------------------------------------ sorted-set properties
EmptyDict == [m \in {} |-> 0]

\* The member -> score lookup of the sorted set a key holds, empty when the
\* key holds none
DictAt(d, heap, key) ==
    IF key \in DOMAIN d /\ d[key] \in ZPtrs THEN heap[d[key]].dict ELSE EmptyDict

\* A zAdd that names no option
NoZAddOption(opts) == opts.nil \/ opts.active = {}

\* The score the request supplies last for a member
LastScore(members, m) ==
    LET last_i == CHOOSE i \in 1..Len(members) :
                     /\ members[i].Member = m
                     /\ \A j \in (i + 1)..Len(members) : members[j].Member # m
    IN  members[last_i].Score

\* The members a request names
RequestMembers(members) == {members[i].Member : i \in 1..Len(members)}

\* C12: a sorted-set operation on a key holding a byte string returns
\* WrongType and changes nothing, and a string read (get, set with GET) on
\* a key holding a sorted set returns WrongType instead of the sorted set.
C12_KindChecked ==
    /\ (/\ zLast.op \in {"zadd", "zrange"}
        /\ zLast.key \in DOMAIN zLast.preData
        /\ zLast.preData[zLast.key] \in Values)
          => /\ zLast.err = ErrWrongType
             /\ data = zLast.preData
             /\ zHeap = zLast.preHeap
    /\ (/\ \/ last.op = "get"
           \/ last.op = "set" /\ ~last.opts.nil /\ IsGET(last.opts)
        /\ last.key \in DOMAIN last.preData
        /\ last.preData[last.key] \in ZPtrs)
          => /\ last.err = ErrWrongType
             /\ last.result \notin ZPtrs

\* C13: zAdd without options on an absent key returns normally, and the key
\* then holds a sorted set with exactly the supplied members, each with the
\* score supplied last for it.
C13_ZAddCreatesSet ==
    (/\ zLast.op = "zadd"
     /\ zLast.key \notin DOMAIN zLast.preData
     /\ NoZAddOption(zLast.opts))
       => /\ ~zLast.panic
          /\ zLast.err = NoErr
          /\ zLast.key \in DOMAIN data
          /\ data[zLast.key] \in ZPtrs
          /\ DictAt(data, zHeap, zLast.key) =
                [m \in RequestMembers(zLast.members) |-> LastScore(zLast.members, m)]

\* The members of a lookup in the total order: score ascending, member
\* ascending as tie-break
RECURSIVE InOrder(_)
InOrder(dict) ==
    IF DOMAIN dict = {} THEN <<>>
    ELSE LET first == CHOOSE m \in DOMAIN dict :
                         \A other \in DOMAIN dict \ {m} :
                            \/ dict[m] < dict[other]
                            \/ dict[m] = dict[other] /\ StrLess(m, other)
         IN  <<first>> \o InOrder(MapDelete(dict, first))

\* The reply that lists the members of seq, each followed by its score in
\* dict if withScores
RECURSIVE ReplyOf(_, _, _)
ReplyOf(seq, dict, withScores) ==
    IF seq = <<>> THEN <<>>
    ELSE (IF withScores
          THEN <<MemberItem(Head(seq)), ScoreItem(dict[Head(seq)])>>
          ELSE <<MemberItem(Head(seq))>>)
         \o ReplyOf(Tail(seq), dict, withScores)

\* A range call that carries no LIMIT
NoLimit(ropts) == ropts.nil \/ ropts.LimitCount = 0

\* The keys on which zAdd is called without options only: the history
\* zAdded of such a key is the sorted set the key should hold
OnlyPlainZAdds(key) == key \notin OptKeys

\* C14: after any sequence of zAdd calls on a key, also ones that move the
\* score of a member up or down, zRange(key, 0, -1) lists every member
\* that was added exactly once, by score ascending and member ascending,
\* and with WITHSCORES each member is followed by its current score.
C14_RangeListsEachMemberOnce ==
    (/\ zLast.op = "zrange"
     /\ zLast.err = NoErr
     /\ OnlyPlainZAdds(zLast.key)
     /\ zLast.ropts.RangeType = ""
     /\ ~zLast.ropts.Rev
     /\ zLast.start = IntArg(0)
     /\ zLast.stop = IntArg(-1)
     /\ NoLimit(zLast.ropts))
       => zLast.result =
             ReplyOf(InOrder(zAdded[zLast.key]), zAdded[zLast.key],
                     ~zLast.ropts.nil /\ zLast.ropts.WithScores)

\* The nodes of the ordered index, front to back along level 1
IndexNodes(sl) ==
    LET ids == CollectNodes(sl, sl.nodes[HeadNode].forward[1],
                            Cardinality(DOMAIN sl.nodes))
    IN  [i \in 1..Len(ids) |-> sl.nodes[ids[i]]]

\* C18: the member -> score lookup and the ordered index hold the same
\* members, every member with the same score in both, and the length of
\* the index is the number of members of the lookup.  A set whose dict
\* and sl are nil holds no member in either.
C18_LookupMatchesIndex ==
    LET index == IF ssSet.alloc THEN IndexNodes(ssSet.sl) ELSE <<>>
        length == IF ssSet.alloc THEN ssSet.sl.length ELSE 0
    IN  /\ {index[i].member : i \in 1..Len(index)} = DOMAIN ssSet.dict
        /\ \A i \in 1..Len(index) :
              /\ index[i].member \in DOMAIN ssSet.dict
              /\ index[i].score = ssSet.dict[index[i].member]
        /\ Len(index) = Cardinality(DOMAIN ssSet.dict)
        /\ length = Cardinality(DOMAIN ssSet.dict)

\* The members a reply lists
ReplyMembers(result) ==
    {result[i].member : i \in {j \in 1..Len(result) : result[j].kind = "member"}}

\* What ZRange answers to the last call under other options
AnswerUnder(opts) ==
    StoreZRange(data, zHeap, zLast.key, zLast.start, zLast.stop, opts).result

\* C19: a zRange by score without LIMIT lists exactly the members that
\* were added and whose current score lies in min .. max, each once, also
\* after scores were changed by later zAdd calls; with REV the same
\* members come in the reverse order.
C19_ByScoreListsCurrentScores ==
    (/\ zLast.op = "zrange"
     /\ zLast.err = NoErr
     /\ OnlyPlainZAdds(zLast.key)
     /\ zLast.ropts.RangeType = "BYSCORE"
     /\ ~zLast.ropts.WithScores
     /\ NoLimit(zLast.ropts))
       => /\ ReplyMembers(zLast.result) =
                {m \in DOMAIN zAdded[zLast.key] :
                    /\ zLast.start.num <= zAdded[zLast.key][m]
                    /\ zAdded[zLast.key][m] <= zLast.stop.num}
          /\ Len(zLast.result) = Cardinality(ReplyMembers(zLast.result))
          /\ zLast.ropts.Rev =>
                zLast.result =
                   Reverse(AnswerUnder([zLast.ropts EXCEPT !.Rev = FALSE]))

\* A guard of the request options skips the pair (x, m) for the lookup dict
Guarded(dict, opts, m, x) ==
    /\ ~opts.nil
    /\ \/ "NX" \in opts.active /\ m \in DOMAIN dict
       \/ "XX" \in opts.active /\ m \notin DOMAIN dict
       \/ "GT" \in opts.active /\ m \in DOMAIN dict /\ ~(x > dict[m])
       \/ "LT" \in opts.active /\ m \in DOMAIN dict /\ ~(x < dict[m])

\* A zAdd that reached its options: the key held no byte string
ZAddAccepted ==
    /\ zLast.op = "zadd"
    /\ zLast.err # ErrWrongType

\* C15: for each member of a zAdd without INCR (taken here for the members
\* the request names once): a pair an NX, XX, GT or LT guard skips leaves
\* the member as it was, and every other pair leaves the member in the set
\* with exactly the supplied score.
C15_GuardsAndUpsert ==
    (ZAddAccepted /\ ~(~zLast.opts.nil /\ "INCR" \in zLast.opts.active))
      => LET pre == DictAt(zLast.preData, zLast.preHeap, zLast.key)
             post == DictAt(data, zHeap, zLast.key)
             once == {i \in 1..Len(zLast.members) :
                        \A j \in 1..Len(zLast.members) :
                           j # i => zLast.members[j].Member # zLast.members[i].Member}
         IN  \A i \in once :
                LET m == zLast.members[i].Member
                    x == zLast.members[i].Score
                IN  IF Guarded(pre, zLast.opts, m, x)
                    THEN SameEntry(pre, post, m)
                    ELSE m \in DOMAIN post /\ post[m] = x

\* C16: zAdd with INCR and one member that an earlier zAdd without options
\* put into the set answers old score + supplied score and stores it; with
\* a number of members other than one it answers InvalidArgument, with an
\* absent member NotFound, and then no score changes.
C16_IncrAddsDelta ==
    (ZAddAccepted /\ ~zLast.opts.nil /\ "INCR" \in zLast.opts.active)
      => LET pre == DictAt(zLast.preData, zLast.preHeap, zLast.key)
             post == DictAt(data, zHeap, zLast.key)
             m == zLast.members[1].Member
         IN  IF Len(zLast.members) # 1
             THEN zLast.err = ErrInvalidArgument /\ post = pre
             ELSE IF m \in DOMAIN zAdded[zLast.key] \/ m \in DOMAIN pre
             THEN /\ zLast.err = NoErr
                  /\ ~zLast.panic
                  /\ m \in DOMAIN pre
                  /\ zLast.kind = "float64"
                  /\ zLast.n = pre[m] + zLast.members[1].Score
                  /\ m \in DOMAIN post
                  /\ post[m] = zLast.n
             ELSE zLast.err = ErrNotFound /\ post = pre

\* The number of pairs of a request no guard skips, counted from pair i on
\* as the pairs are applied one after the other
RECURSIVE NotSkipped(_, _, _, _)
NotSkipped(dict, members, opts, i) ==
    IF i > Len(members) THEN 0
    ELSE IF Guarded(dict, opts, members[i].Member, members[i].Score)
    THEN NotSkipped(dict, members, opts, i + 1)
    ELSE 1 + NotSkipped(MapPut(dict, members[i].Member, members[i].Score),
                        members, opts, i + 1)

\* C17: zAdd without INCR returns the number of pairs no guard skipped
\* when CH is set, and the number of pairs of the request when it is not.
C17_ReturnCount ==
    (ZAddAccepted /\ ~(~zLast.opts.nil /\ "INCR" \in zLast.opts.active))
      => /\ ~zLast.panic
         /\ zLast.err = NoErr
         /\ zLast.kind = "int"
         /\ zLast.n =
              IF ~zLast.opts.nil /\ "CH" \in zLast.opts.active
              THEN NotSkipped(DictAt(zLast.preData, zLast.preHeap, zLast.key),
                              zLast.members, zLast.opts, 1)
              ELSE Len(zLast.members)

\* ------------------------------------------------------ store invariants
\* C23: every key that has an entry in the expiry map has an entry in the
\* value map, whatever get, set, del, expire and zAdd calls came before.
C23_ExpiryImpliesValue ==
    DOMAIN expires \subseteq DOMAIN data

\* A zAdd has just been called on a key that holds a sorted set and whose
\* expiry, installed by an expire, has passed: both entries are still there
C23_Witness ==
    /\ zLast.op = "zadd"
    /\ zLast.key \in DOMAIN expires
    /\ isExpired(expires, zLast.key, now)
    /\ data[zLast.key] \in ZPtrs

\* ------------------------------------------------------ option registry
\* C24: Set(name) fails with UnknownOption when name is not registered,
\* with OptionConflict exactly when an active option is in name's list of
\* incompatible options, and otherwise makes name active; a failed Set
\* leaves the active set as it was, and IsSet(n) is true exactly for the
\* names Set accepted since the last Clear.
C24_SetChecksAndActivates ==
    /\ oLast.op = "set" =>
          LET name == ToUpper(oLast.name)
          IN  IF name \notin DOMAIN ZAddRegistry
              THEN oLast.err = ErrUnknownOption /\ oActive = oLast.pre
              ELSE IF oLast.pre \cap ZAddRegistry[name] # {}
              THEN oLast.err = ErrOptionConflict /\ oActive = oLast.pre
              ELSE oLast.err = NoErr /\ oActive = oLast.pre \cup {name}
    /\ \A n \in OptionNames : OptionsIsSet(oActive, n) <=> ToUpper(n) \in oActivated

\* A Set was rejected for a conflict while another option stayed active
C24_Witness ==
    /\ oLast.op = "set"
    /\ oLast.err = ErrOptionConflict
    /\ oActive # {}
    /\ oActive = oLast.pre

\* C25: on a ZADD option object INCR is never active together with NX, XX,
\* GT or LT, whatever the order of the Set calls.
C25_IncrExcludesGuards ==
    ~("INCR" \in oActive /\ oActive \cap {"NX", "XX", "GT", "LT"} # {})

\* ------------------------------------------------------------ connections
\* C26: a well-framed request that is rejected (unknown command, wrong
\* argument count, bad option, engine error) is answered with an error
\* reply and the connection stays open; the handler ends only on a
\* transport failure or malformed framing.
C26_RejectedRequestKeepsConnection ==
    \A c \in Conns :
        /\ (/\ conns[c].lastReq.frame = "array"
            /\ conns[c].cause # "transport"
            /\ \/ Parse(conns[c].lastReq, now).err # NoErr
               \/ conns[c].lastReply.kind = "error")
             => /\ conns[c].lastReply.kind = "error"
                /\ conns[c].handler \notin {"exited", "panicking"}
        /\ conns[c].handler \in {"exited", "panicking"} =>
             \/ conns[c].cause = "transport"
             \/ conns[c].lastReq.frame # "array"

\* C27: once Stop is invoked it returns, whatever the clients do, as long
\* as the process lives.
C27_StopReturns ==
    (srv.stop # "idle") ~> (srv.stop = "returned" \/ ~Running)

\* ------------------------------------------------------- index by rank
\* The node ids of the ordered index, front to back along level 1
IndexIds(sl) ==
    CollectNodes(sl, sl.nodes[HeadNode].forward[1], Cardinality(DOMAIN sl.nodes))

\* A negative index i stands for length + i
Resolve(sl, i) == IF i < 0 THEN sl.length + i ELSE i

\* x brought into lo .. hi
Clamp(x, lo, hi) == IF x < lo THEN lo ELSE IF x > hi THEN hi ELSE x

\* The nodes at ranks from .. to, or none when from > to
Ranks(sl, from, to) ==
    IF from > to THEN <<>> ELSE SubSeq(IndexIds(sl), from + 1, to + 1)

\* C30 as stated: getRange resolves negative indices as length + i, clamps
\* both resolved indices into 0 .. length-1, and returns the nodes at ranks
\* start .. stop in ascending order, or nothing when start > stop after
\* clamping or when the index is empty.
C30_RangeClampsBoth ==
    sklLast.op = "getRange" =>
        LET sl == skl
            start == Clamp(Resolve(sl, sklLast.start), 0, sl.length - 1)
            stop == Clamp(Resolve(sl, sklLast.stop), 0, sl.length - 1)
        IN  sklLast.result = IF sl.length = 0 THEN <<>> ELSE Ranks(sl, start, stop)

\* C30, amended: getRange resolves negative indices as length + i, raises
\* a resolved start below 0 to 0 and lowers a resolved stop above length-1
\* to length-1 (a start beyond the last rank and a stop before the first
\* stay where they are), and returns the nodes at ranks start .. stop in
\* ascending order, or nothing when start > stop.
C30_RangeClampsOutward ==
    sklLast.op = "getRange" =>
        LET sl == skl
            r1 == Resolve(sl, sklLast.start)
            r2 == Resolve(sl, sklLast.stop)
            start == IF r1 < 0 THEN 0 ELSE r1
            stop == IF r2 > sl.length - 1 THEN sl.length - 1 ELSE r2
        IN  sklLast.result = Ranks(sl, start, stop)

\* A getRange with a negative start and a stop beyond the end that
\* returned two nodes or more
C30_Witness ==
    /\ sklLast.op = "getRange"
    /\ sklLast.start < 0
    /\ sklLast.stop >= skl.length
    /\ Len(sklLast.result) >= 2

\* The positions of the nodes of the index that carry member
NodesOf(sl, member) ==
    {i \in 1..Len(IndexNodes(sl)) : IndexNodes(sl)[i].member = member}

\* The index is in order: by score, then by member
IndexSorted(sl) ==
    LET index == IndexNodes(sl)
    IN  \A i \in 1..(Len(index) - 1) :
           Before(index[i], index[i + 1].score, index[i + 1].member)

\* C29: an insert of a member that is present with a different score
\* leaves exactly one node for the member, with the new score and at its
\* sorted position, and the length unchanged; after any sequence of
\* inserts every member is on at most one node.
C29_InsertMovesNode ==
    /\ \A m \in Members : Cardinality(NodesOf(skl, m)) <= 1
    /\ (/\ sklLast.op = "insert"
        /\ \E i \in NodesOf(sklLast.pre, sklLast.member) :
              IndexNodes(sklLast.pre)[i].score # sklLast.score)
         => /\ \A i \in NodesOf(skl, sklLast.member) :
                  IndexNodes(skl)[i].score = sklLast.score
            /\ Cardinality(NodesOf(skl, sklLast.member)) = 1
            /\ skl.length = sklLast.pre.length
            /\ IndexSorted(skl)

\* ---------------------------------------------------------------- globs
\* A bracket of a glob from position j on: the characters up to the
\* closing "]", a backslash making the next character a member; closed
\* tells whether the closing "]" was found
RECURSIVE GlobClass(_, _, _)
GlobClass(pattern, j, set) ==
    IF j > Len(pattern) THEN [closed |-> FALSE, set |-> set, next |-> j]
    ELSE IF pattern[j] = "]" THEN [closed |-> TRUE, set |-> set, next |-> j + 1]
    ELSE IF pattern[j] = "\\"
         THEN IF j + 1 > Len(pattern)
              THEN [closed |-> FALSE, set |-> set, next |-> j]
              ELSE GlobClass(pattern, j + 2, set \cup {pattern[j + 1]})
    ELSE GlobClass(pattern, j + 1, set \cup {pattern[j]})

\* A glob read as the claim reads it: "*" any run of characters, "?" one
\* character, "[...]" one character of the class, "[^...]" one character
\* not in it, a backslash and a character that character.  ok is FALSE
\* for a pattern with an open bracket, an empty class or a backslash at
\* its end, about which glob semantics says nothing.
RECURSIVE GlobParse(_, _, _)
GlobParse(pattern, i, prog) ==
    IF i > Len(pattern) THEN [ok |-> TRUE, prog |-> prog]
    ELSE
      CASE pattern[i] = "*" ->
             GlobParse(pattern, i + 1, Append(prog, [AnyAtom EXCEPT !.star = TRUE]))
        [] pattern[i] = "?" -> GlobParse(pattern, i + 1, Append(prog, AnyAtom))
        [] pattern[i] = "[" ->
             LET negated == i + 1 <= Len(pattern) /\ pattern[i + 1] = "^"
                 class == GlobClass(pattern, IF negated THEN i + 2 ELSE i + 1, {})
             IN  IF ~class.closed \/ class.set = {} THEN [ok |-> FALSE, prog |-> prog]
                 ELSE GlobParse(pattern, class.next,
                                Append(prog, ClassAtom(class.set, negated)))
        [] pattern[i] = "\\" ->
             IF i + 1 > Len(pattern) THEN [ok |-> FALSE, prog |-> prog]
             ELSE GlobParse(pattern, i + 2, Append(prog, LitAtom(pattern[i + 1])))
        [] OTHER -> GlobParse(pattern, i + 1, Append(prog, LitAtom(pattern[i])))

\* The whole of str matches the glob
GlobSemantics(str, pattern) ==
    MatchAt(<<Anchor("bol")>> \o GlobParse(pattern, 1, <<>>).prog \o <<Anchor("eol")>>,
            1, str, 1)

\* C28: for every string and every pattern that is a glob, matchPattern
\* answers as glob semantics does: "*" zero or more characters, "?"
\* exactly one, "[...]" one character of the class, "[^...]" one not in
\* it, a backslash and a character that character literally.
C28_MatchesAsGlob ==
    (gLast.op = "match" /\ GlobParse(gLast.pattern, 1, <<>>).ok)
        => (gLast.matched <=> GlobSemantics(gLast.str, gLast.pattern))

\* ----------------------------------------------------- concurrent callers
\* The goroutine is between the return of Lock or RLock and the deferred
\* unlock
InCriticalSection(p) ==
    procs[p].pc \notin {"idle", "lock", "drain", "blocked", "panicking", "crashed"}

\* The operations whose body writes the value map, the expiry map or a
\* sorted set
Mutates(op) == op \in {"get", "set", "del", "expire", "zadd"}

\* While a call is under way some goroutine can take a step of its call;
\* between the calls of a caller the value map holds the last completed
\* write of the caller's key, and that is what the caller's get returned
NoLostUpdate ==
    /\ (\E p \in Procs : procs[p].pc # "idle") => ENABLED (\E p \in Procs : CStep(p))
    /\ \A p \in Procs :
          (procs[p].pc = "idle" /\ plain[Home(p)]) =>
              /\ Lookup(data, Home(p)) = written[Home(p)]
              /\ (procs[p].op = "get" /\ procs[p].key = Home(p))
                    => procs[p].result = written[Home(p)]

\* C21: with every caller writing and deleting its own key only, every
\* call that has been made returns (no deadlock), a get of the caller's
\* key returns the key's last completed write, and between the caller's
\* calls the value map holds that write (no lost update, no update of
\* another caller's key).  Taken for keys without an expiry.
C21_DisjointKeysComplete ==
    /\ []NoLostUpdate
    /\ \A p \in Procs : (procs[p].pc # "idle") ~> (procs[p].pc = "idle")

\* One caller has read back the value it wrote to its key while the other
\* is inside a Set of its own key
C21_Witness ==
    /\ procs["p1"].pc = "idle"
    /\ procs["p1"].op = "get"
    /\ procs["p1"].key = "k1"
    /\ procs["p1"].result \in Values
    /\ plain["k1"]
    /\ procs["p2"].op = "set"
    /\ procs["p2"].pc = "expiry"
    /\ written["k2"] # Nil
    /\ data["k2"] # written["k2"]

\* C22: while a get, set, del, expire or zAdd is inside its critical
\* section no other operation is inside one; the deletion a get makes
\* happens while the key is still expired and removes both entries, and
\* the value a get returns is the one the map holds at its return; an
\* expire writes the expiry map and a zAdd reaches Add while the key still
\* holds what they found or stored; with no writer inside, every value in
\* the map is the last completed write of its key and every expiry belongs
\* to a key that has a value.
C22_MutationIsExclusive ==
    /\ \A p \in Procs, q \in Procs :
          (p # q /\ InCriticalSection(p) /\ Mutates(procs[p].op))
              => ~InCriticalSection(q)
    /\ \A p \in Procs :
          procs[p].op = "get" =>
              /\ procs[p].pc = "delData" => isExpired(expires, procs[p].key, now)
              /\ procs[p].pc = "delExpires" => procs[p].key \notin DOMAIN data
              /\ (procs[p].pc = "return" /\ procs[p].expired) =>
                     /\ procs[p].key \notin DOMAIN data
                     /\ procs[p].key \notin DOMAIN expires
              /\ (procs[p].pc = "return" /\ ~procs[p].expired) =>
                     procs[p].result = Lookup(data, procs[p].key)
    /\ \A p \in Procs :
          /\ (procs[p].op = "expire" /\ procs[p].pc \in {"xDelExpires", "xStore"})
                => procs[p].key \in DOMAIN data
          /\ (procs[p].op = "expire" /\ procs[p].pc = "xDelData")
                => procs[p].key \in DOMAIN data \ DOMAIN expires
          /\ (procs[p].op = "zadd" /\ procs[p].pc \in {"zAdd", "unwind"})
                => Lookup(data, procs[p].key) = ZPtr[procs[p].key]
    /\ mu.writer = "none" =>
          /\ \A k \in DOMAIN data : data[k] = written[k]
          /\ DOMAIN expires \subseteq DOMAIN data

\* A get is deleting the expired key of the other caller while that caller
\* waits at the lock with a new Set of the key
C22_Witness ==
    /\ procs["p2"].op = "get"
    /\ procs["p2"].key = "k1"
    /\ procs["p2"].pc = "delExpires"
    /\ procs["p1"].op = "set"
    /\ procs["p1"].pc = "lock"

\* ------------------------------------------------------- ZRANGE requests
\* The option names among the arguments of the last request
RequestedOptions == {ToUpper(pLast.args[i]) : i \in 1..Len(pLast.args)}

\* C31: a ZRANGE request that names both BYSCORE and BYLEX is rejected
\* with an option-conflict error, so no command is built from it.
C31_RangeTypesConflict ==
    (pLast.op = "zrange" /\ {"BYSCORE", "BYLEX"} \subseteq RequestedOptions)
        => pLast.err = ErrOptionConflict

\* A request naming both range types was turned into a command
C31_BothRangeTypesAccepted ==
    /\ pLast.op = "zrange"
    /\ pLast.args = <<"BYSCORE", "BYLEX">>
    /\ pLast.err = NoErr
    /\ pLast.cmd.Options.RangeType = "BYLEX"

\* ------------------------------------------------- keys past their expiry
\* The last call found its key stored with an expiry that had passed
FoundExpired ==
    /\ last.key \in DOMAIN last.preData
    /\ isExpired(last.preExpires, last.key, last.at)

\* C32: once the expiry of a key has passed its old value is never readable
\* again: expire on the key returns NotFound and installs no new expiry, and
\* get returns absence.
C32_ExpiredValueStaysGone ==
    /\ (last.op = "expire" /\ FoundExpired) =>
          /\ last.err = ErrNotFound
          /\ last.key \in DOMAIN expires => expires[last.key] = last.preExpires[last.key]
    /\ (last.op = "get" /\ FoundExpired) => last.result = Nil

\* What the last set would have done had its key been absent
SetOnAbsent ==
    StoreSet(MapDelete(last.preData, last.key), MapDelete(last.preExpires, last.key),
             last.key, last.value, last.opts)

\* C33: set on a key whose expiry has passed and that is still stored
\* behaves as set on an absent key: same error (NX succeeds, XX fails), same
\* reply (GET returns absence) and the same answer of a get that follows at
\* once (KEEPTTL does not retain the passed expiry).
C33_SetOnExpiredAsOnAbsent ==
    (last.op = "set" /\ FoundExpired) =>
        /\ last.err = SetOnAbsent.err
        /\ last.result = SetOnAbsent.result
        /\ StoreGet(data, expires, last.key, now).result =
              StoreGet(SetOnAbsent.data, SetOnAbsent.expires, last.key, now).result

\* The last sorted-set call found its key stored with an expiry that had
\* passed (sorted-set calls change neither the clock nor the expiries)
ZFoundExpired ==
    /\ zLast.key \in DOMAIN zLast.preData
    /\ isExpired(expires, zLast.key, now)

\* C34: sorted-set operations treat a key whose expiry has passed as absent:
\* zRange on it returns the empty sequence, and zAdd on it starts from an
\* empty set, so the set holds no member but the supplied ones afterwards.
C34_SortedSetOpsSeeExpiry ==
    /\ (zLast.op = "zrange" /\ ZFoundExpired) =>
          zLast.err = NoErr /\ zLast.result = <<>>
    /\ (zLast.op = "zadd" /\ ZFoundExpired) =>
          /\ zLast.err # ErrWrongType
          /\ zLast.key \in DOMAIN data /\ data[zLast.key] \in ZPtrs
          /\ DOMAIN zHeap[data[zLast.key]].dict \subseteq
                {zLast.members[i].Member : i \in 1..Len(zLast.members)}

\* The last zAdd wrote no member: it returned an error of INCR, or a guard
\* skipped every pair of the request
ZAddWroteNothing ==
    /\ zLast.op = "zadd"
    /\ ~zLast.panic
    /\ \/ zLast.err \in {ErrInvalidArgument, ErrNotFound}
       \/ /\ zLast.err = NoErr
          /\ ~(~zLast.opts.nil /\ "INCR" \in zLast.opts.active)
          /\ \A i \in 1..Len(zLast.members) :
                Guarded(DictAt(zLast.preData, zLast.preHeap, zLast.key), zLast.opts,
                        zLast.members[i].Member, zLast.members[i].Score)

\* C35: a zAdd that returns an error or skips every supplied member leaves
\* the keyspace unchanged: a key absent before the call is absent after it
\* (get returns absence, keys omits it, set with NX succeeds).
C35_ZAddWithoutEffectKeepsKeyspace ==
    (ZAddWroteNothing /\ zLast.key \notin DOMAIN zLast.preData) =>
        /\ zLast.key \notin DOMAIN data
        /\ zLast.key \notin StoreKeys(data, expires, "*", now)
        /\ StoreSet(data, expires, zLast.key, "v1",
                    MkOpts(FALSE, {"NX"}, NoExpiry)).err = NoErr

\* ------------------------------------------------ structure of the index
\* The node ids along the forward links of level i, from the head on; a
\* node without a link of that level ends the chain
RECURSIVE ChainFrom(_, _, _, _)
ChainFrom(sl, current, i, n) ==
    IF n = 0 \/ current = NilNode \/ current \notin DOMAIN sl.nodes THEN <<>>
    ELSE <<current>> \o
         (IF i > Len(sl.nodes[current].forward) THEN <<>>
          ELSE ChainFrom(sl, sl.nodes[current].forward[i], i, n - 1))

Chain(sl, i) ==
    ChainFrom(sl, sl.nodes[HeadNode].forward[i], i, Cardinality(DOMAIN sl.nodes))

\* sub lists elements of seq in the order seq has them
RECURSIVE IsSubsequence(_, _)
IsSubsequence(sub, seq) ==
    IF sub = <<>> THEN TRUE
    ELSE IF seq = <<>> THEN FALSE
    ELSE IF Head(sub) = Head(seq) THEN IsSubsequence(Tail(sub), Tail(seq))
    ELSE IsSubsequence(sub, Tail(seq))

\* C36: in every state of the index the chain of the lowest level ascends
\* strictly by (score, member), the chain of every higher level is a
\* subsequence of the chain below it, every node has a level in
\* 1 .. maxLevel, and the level of the index is in 1 .. maxLevel with no
\* forward link of the head at or above it.
C36_IndexWellFormed ==
    LET sl == skl
        lowest == Chain(sl, 1)
    IN  /\ \A j \in 1..(Len(lowest) - 1) :
              Before(sl.nodes[lowest[j]], sl.nodes[lowest[j + 1]].score,
                     sl.nodes[lowest[j + 1]].member)
        /\ \A i \in 2..maxLevel :
              /\ IsSubsequence(Chain(sl, i), Chain(sl, i - 1))
              /\ \A j \in 1..Len(Chain(sl, i)) : sl.nodes[Chain(sl, i)[j]].level >= i
        /\ \A id \in DOMAIN sl.nodes :
              /\ sl.nodes[id].level \in 1..maxLevel
              /\ Len(sl.nodes[id].forward) = sl.nodes[id].level
        /\ sl.level \in 1..maxLevel
        /\ \A i \in (sl.level + 1)..maxLevel : sl.nodes[HeadNode].forward[i] = NilNode

\* An insert lowered a score in place and removed a node of two levels that
\* followed; nodes of both levels remain
C36_Witness ==
    /\ sklLast.op = "insert"
    /\ skl.length < sklLast.pre.length
    /\ sklLast.pre.level = 2
    /\ \E id \in DOMAIN sklLast.pre.nodes \ DOMAIN skl.nodes :
          sklLast.pre.nodes[id].level = 2
    /\ Len(Chain(skl, 1)) >= 1

\* C37: the backward link of every node is its predecessor on the lowest
\* level, nil for the first node; the tail is the last node of the lowest
\* level, nil when the index is empty; the length is the number of nodes on
\* the lowest level.
C37_BackwardTailLength ==
    LET sl == skl
        lowest == Chain(sl, 1)
    IN  /\ \A j \in 1..Len(lowest) :
              sl.nodes[lowest[j]].backward =
                 (IF j = 1 THEN NilNode ELSE lowest[j - 1])
        /\ sl.tail = (IF lowest = <<>> THEN NilNode ELSE lowest[Len(lowest)])
        /\ sl.length = Len(lowest)

\* An insert removed the last node of the index and left another node as
\* the tail
C37_Witness ==
    /\ sklLast.op = "insert"
    /\ skl.length < sklLast.pre.length
    /\ sklLast.pre.tail \notin DOMAIN skl.nodes
    /\ skl.tail # NilNode

\* ------------------------------------------- the flags of a ZRANGE call
\* The members of the lookup dict that a range selects, in the total
\* order: all of them for the range 0 .. -1 by rank, those with a score
\* in start .. stop by score, those from start to stop by member
Selected(dict, start, stop, ropts) ==
    LET inRange(m) ==
           IF ropts.RangeType = "BYSCORE"
           THEN start.num <= dict[m] /\ dict[m] <= stop.num
           ELSE IF ropts.RangeType = "BYLEX"
           THEN StrLeq(start.str, m) /\ StrLeq(m, stop.str)
           ELSE TRUE
    IN  SelectSeq(InOrder(dict), inRange)

\* A range over the whole set by rank, or a range by score or by member
WholeOrTyped(call) ==
    \/ call.ropts.RangeType \in {"BYSCORE", "BYLEX"}
    \/ call.start = IntArg(0) /\ call.stop = IntArg(-1)

\* C39: with REV zRange returns the selected elements in the reverse of the
\* order it returns them in without REV, for every range type, and the
\* range 0 .. -1 by rank with REV lists the members that were added in
\* descending order of (score, member).
C39_RevReverses ==
    (/\ zLast.op = "zrange"
     /\ zLast.err = NoErr
     /\ OnlyPlainZAdds(zLast.key)
     /\ ~zLast.ropts.nil
     /\ zLast.ropts.Rev
     /\ ~zLast.ropts.WithScores
     /\ NoLimit(zLast.ropts))
       => /\ zLast.result = Reverse(AnswerUnder([zLast.ropts EXCEPT !.Rev = FALSE]))
          /\ (/\ zLast.ropts.RangeType = ""
              /\ zLast.start = IntArg(0)
              /\ zLast.stop = IntArg(-1))
                => zLast.result =
                      Reverse(ReplyOf(InOrder(zAdded[zLast.key]),
                                      zAdded[zLast.key], FALSE))

\* C40: with WITHSCORES zRange returns every member that was added and
\* that the range selects, immediately followed by its current score, for
\* every range type (taken here for the calls without REV and LIMIT), so
\* the result is twice as long as the selection.
C40_WithScoresPairs ==
    (/\ zLast.op = "zrange"
     /\ zLast.err = NoErr
     /\ OnlyPlainZAdds(zLast.key)
     /\ ~zLast.ropts.nil
     /\ zLast.ropts.WithScores
     /\ ~zLast.ropts.Rev
     /\ NoLimit(zLast.ropts)
     /\ WholeOrTyped(zLast))
       => LET selected == Selected(zAdded[zLast.key], zLast.start, zLast.stop,
                                   zLast.ropts)
          IN  /\ Len(zLast.result) = 2 * Len(selected)
              /\ zLast.result = ReplyOf(selected, zAdded[zLast.key], TRUE)
====
